---- MODULE Spec2Model ----
(***************************************************************************)
(* go-idforge: ExtendedGenerator.Generate (pkg/idforge/                    *)
(* extended_generator.go) as a state machine.                              *)
(*                                                                         *)
(* One generator instance (config, generated, idCounter, mu) is shared by  *)
(* the goroutines in `callers`.  Each goroutine runs Generate step by      *)
(* step; pc[p] is its position in the method.  Strings are sequences of    *)
(* byte values, as Go indexes them.  The crypto/rand draws, the provider   *)
(* outputs and the moment the context is cancelled are nondeterministic.   *)
(*                                                                         *)
(* Two further specifications apply one function on its own:               *)
(* generateCandidateID to every combination of draws (SpecMix) and         *)
(* GetUniquenessProbability to ints of 4 and 8 bytes (SpecProb).           *)
(*                                                                         *)
(* The rest of the library has a specification each: the IDValidator       *)
(* (SpecVal), the basic Generator and its options (SpecBasic), the         *)
(* SecureEntropyAggregator (SpecAgg), the construction of the              *)
(* configuration from options (SpecCfg) and several ExtendedGenerator      *)
(* instances side by side (SpecTwo).  Further specifications: the secure   *)
(* token (SpecTok), alphabets that repeat symbols (SpecRep), Generate      *)
(* under fairness (SpecLive) and one entropy provider instance called by   *)
(* two goroutines at a time (SpecShare).                                   *)
(***************************************************************************)
EXTENDS Integers, Sequences, FiniteSets, Bags, TLC

\* ------------------------------------------------------------------ bounds

\* rand.Int(rand.Reader, n) is explored for the outcomes 0 .. Min(n, MaxDraw) - 1
MaxDraw == 2

\* generateCandidateID is applied to the alphabets of 2 .. MaxAlphabet symbols
MaxAlphabet == 5

\* GetUniquenessProbability is called MaxQueries times, with n, n + 1, ...
MaxQueries == 2

\* ------------------------------------------------------- program constants

\* extended_generator.go:174  "1000, // Prevent excessive iterations"
HardCap == 1000

\* extended_generator.go:103  "if attempt%10 == 0"
CheckEvery == 10

ErrNil == "nil"
ErrInvalidAlphabet == "ErrInvalidAlphabet"
ErrInvalidSize == "ErrInvalidSize"
ErrGenerationTimeout == "ErrGenerationTimeout"
\* a run-time panic of the Go program (index out of range)
ErrPanic == "panic"

\* --------------------------------------------------------------- helpers

Min2(a, b) == IF a <= b THEN a ELSE b

RECURSIVE Pow(_, _)
\* math.Pow(float64(b), float64(e)) for the small non-negative integers used here
Pow(b, e) == IF e <= 0 THEN 1 ELSE b * Pow(b, e - 1)

RECURSIVE JoinReversed(_)
\* slip: the parts concatenated last to first
JoinReversed(parts) ==
    IF parts = <<>> THEN <<>> ELSE JoinReversed(Tail(parts)) \o Head(parts)

RECURSIVE Join(_)
\* strings.Join(parts, "")
Join(parts) == IF parts = <<>> THEN <<>> ELSE Head(parts) \o Join(Tail(parts))

\* the alphabet of the n distinct bytes 'A', 'B', ... (Letters(2) is "AB")
Letters(n) == [i \in 1..n |-> 64 + i]

\* --------------------------------------------------- machine integers
\* A Go int is a sequence of bytes, least significant first, in two's
\* complement: 4 bytes on 32-bit builds, 8 bytes on 64-bit builds.  Arithmetic
\* wraps around modulo 2^(8 * Len).

IntSizes == {4, 8}

\* the int of w bytes whose low bytes are those of s
Pad(s, w) == [i \in 1..w |-> IF i <= Len(s) THEN s[i] ELSE 0]

\* 2^k as an int of w bytes
PowerOfTwo(k, w) == [i \in 1..w |-> IF i = (k \div 8) + 1 THEN Pow(2, k % 8) ELSE 0]

\* -1: all bits set
MinusOne(w) == [i \in 1..w |-> 255]

\* the largest int of w bytes
MaxInt(w) == [i \in 1..w |-> IF i = w THEN 127 ELSE 255]

RECURSIVE AddFrom(_, _, _, _)
AddFrom(a, b, i, carry) ==
    IF i > Len(a) THEN <<>>
    ELSE LET t == a[i] + b[i] + carry
         IN << t % 256 >> \o AddFrom(a, b, i + 1, t \div 256)

\* a + b, wrapping
IntAdd(a, b) == AddFrom(a, b, 1, 0)

RECURSIVE ColumnSum(_, _, _, _)
ColumnSum(a, b, k, i) ==
    IF i > k THEN 0 ELSE a[i] * b[k + 1 - i] + ColumnSum(a, b, k, i + 1)

RECURSIVE MulFrom(_, _, _, _)
MulFrom(a, b, k, carry) ==
    IF k > Len(a) THEN <<>>
    ELSE LET t == ColumnSum(a, b, k, 1) + carry
         IN << t % 256 >> \o MulFrom(a, b, k + 1, t \div 256)

\* a * b, wrapping
IntMul(a, b) == MulFrom(a, b, 1, 0)

IntIsZero(a) == \A i \in 1..Len(a) : a[i] = 0
IntIsNegative(a) == a[Len(a)] >= 128

RECURSIVE UnsignedLess(_, _, _)
\* a < b as unsigned numbers, comparing from byte i downwards
UnsignedLess(a, b, i) ==
    IF i = 0 THEN FALSE
    ELSE IF a[i] # b[i] THEN a[i] < b[i] ELSE UnsignedLess(a, b, i - 1)

\* a < b as signed ints
IntLess(a, b) ==
    IF IntIsNegative(a) # IntIsNegative(b) THEN IntIsNegative(a)
    ELSE UnsignedLess(a, b, Len(a))

\* ------------------------------------------------------ entropy providers

\* The EntropyProvider implementations a configuration may list.  outs: the
\* strings Provide may return; fails: whether Provide may return an error.
\*   timestamp : TimestampEntropy.Provide, decimal digits, never fails
\*   network   : NetworkEntropy.Provide, may fail (net.Interfaces) and may
\*               return the empty string (no MAC address found)
\*   random    : RandomBytesEntropy.Provide, hex digits, may fail (rand.Read)
\*   uuid      : UUIDEntropy.Provide, hex digits and dashes, never fails
\*   system    : SystemEntropy.Provide, digits and underscores, never fails
\*   enhanced  : EnhancedEntropyProvider.Provide, decimal digits, never fails
\*   custom    : a caller's implementation of the interface that honours the
\*               context it is passed: it may return ctx.Err() when the context
\*               is done during the call
ProviderOuts(name) ==
    CASE name = "timestamp" -> { <<49>>, <<50, 55>> }
      [] name = "network"   -> { <<>>, <<48, 50>> }
      [] name = "random"    -> { <<102>> }
      [] name = "custom"    -> { <<53>> }
      [] name = "uuid"      -> { <<97, 45>> }
      [] name = "system"    -> { <<51, 95>> }
      [] name = "enhanced"  -> { <<57>> }
      [] OTHER              -> { <<>> }

ProviderFails(name) == name \in {"network", "random"}

\* the error value a failing provider returns
ProviderErr(name) == "Err:" \o name

\* ctx.Err() of a done context
CtxErr(c) == IF c = "expired" THEN "context.DeadlineExceeded" ELSE "context.Canceled"

\* the errors Provide(ctx) of the provider may return when the context is c
ProvideErrors(name, c) ==
    (IF ProviderFails(name) THEN { ProviderErr(name) } ELSE {})
    \cup (IF name = "custom" /\ c # "live" THEN { CtxErr(c) } ELSE {})

ProviderErrs ==
    { ProviderErr(n) : n \in {"timestamp", "network", "random"} }
    \cup { "context.DeadlineExceeded", "context.Canceled" }

\* --------------------------------------------------------- configurations

\* GeneratorConfig.  UniquenessPressure is the exact binary fraction num/den
\* (so the float64 product of calculateMaxAttempts is exact); MaxGenerationTime
\* is kept only as "positive" (1) or "not positive" (0).
Cfg(alphabet, size, entropy, num, den, maxIDs, maxTime) ==
    [ Alphabet |-> alphabet, Size |-> size, Entropy |-> entropy,
      UniquenessPressure |-> [num |-> num, den |-> den],
      MaxUniqueIDs |-> maxIDs, MaxGenerationTime |-> maxTime ]

\* configurations explored with two concurrent callers
SmallConfigs ==
    { Cfg(Letters(2), 1, <<"timestamp">>, 1, 1, 2, 1),
      Cfg(Letters(3), 1, <<>>, 1, 1, 1, 1),
      Cfg(Letters(3), 1, <<"random">>, 1, 4, 2, 1),
      Cfg(Letters(2), 1, <<"network">>, 1, 1, 0, 1),
      Cfg(Letters(2), 1, <<"timestamp">>, 1, 1, 2, 0),
      Cfg(Letters(2), 0, <<"timestamp">>, 1, 1, 2, 1),
      Cfg(Letters(2), -1, <<>>, 1, 1, 2, 1),
      Cfg(Letters(1), 1, <<"timestamp">>, 1, 1, 2, 1),
      Cfg(Letters(1), 0, <<"timestamp">>, 1, 1, 2, 1),
      Cfg(<<>>, 1, <<>>, 1, 1, 2, 1) }

\* configurations explored with a single caller: longer IDs, several providers,
\* retry loops of 16 attempts and of 1000 attempts (32^2 = 1024 IDs), a provider
\* that honours the context, a cap above the number of IDs
SeqConfigs ==
    { Cfg(Letters(2), 2, <<"network", "timestamp">>, 1, 2, 3, 1),
      Cfg(Letters(3), 2, <<"timestamp">>, 1, 1, 2, 1),
      Cfg(Letters(3), 1, <<"network">>, 1, 2, 2, 1),
      Cfg(Letters(4), 2, <<>>, 1, 1, 2, 1),
      Cfg(Letters(4), 1, <<"random">>, 1, 2, 2, 1),
      Cfg(Letters(32), 2, <<>>, 1, 1, 2, 1),
      Cfg(Letters(2), 1, <<"timestamp", "custom", "network">>, 1, 1, 2, 1),
      Cfg(Letters(2), 1, <<>>, 1, 1, 3, 1) }

\* configurations to which generateCandidateID is applied on its own
MixConfigs ==
    { Cfg(Letters(n), size, <<>>, 1, 1, 2, 1) : n \in 2..MaxAlphabet, size \in 1..2 }

\* the seedBytes it is applied to: none, every single byte, pairs of bytes
MixSeeds ==
    { <<>> } \cup { <<b>> : b \in 0..255 } \cup { <<b, 255 - b>> : b \in 0..255 }

\* configurations whose uniqueness probability is queried: ID spaces of 2, 9
\* and 1024 IDs, the empty alphabet with Size 1 (0 IDs) and with Size 0
ProbConfigs ==
    { Cfg(Letters(2), 1, <<>>, 1, 1, 2, 1),
      Cfg(Letters(3), 2, <<>>, 1, 1, 2, 1),
      Cfg(Letters(32), 2, <<>>, 1, 1, 2, 1),
      Cfg(<<>>, 1, <<>>, 1, 1, 2, 1),
      Cfg(<<>>, 0, <<>>, 1, 1, 2, 1) }

\* the non-negative arguments the queries start from, for an int of w bytes:
\* 0 .. 3, the powers of two and their predecessors, the largest int, 10^6,
\* 46341 and 3037000500 (the largest n with n*(n-1) below 2^31 and below 2^63)
ProbInputs(w) ==
    { Pad(<<k>>, w) : k \in 0..3 }
    \cup { PowerOfTwo(k, w) : k \in 2..(8 * w - 2) }
    \cup { IntAdd(PowerOfTwo(k, w), MinusOne(w)) : k \in 2..(8 * w - 2) }
    \cup { MaxInt(w), Pad(<<64, 66, 15>>, w), Pad(<<5, 181>>, w) }
    \cup (IF w = 8 THEN { Pad(<<52, 243, 4, 181>>, w) } ELSE {})

Procs == {"p1", "p2"}

VARIABLES
    config,       \* g.config
    callers,      \* the goroutines that call Generate on the instance
    generated,    \* g.generated: the set of keys of the map
    idCounter,    \* g.idCounter
    mu,           \* g.mu: TRUE when locked
    pc,           \* position of each goroutine in Generate
    ctx,          \* timeoutCtx of the call: "live", "precancelled" (the caller's
                  \* context was done when Generate was called), "cancelled", "expired"
    entropyParts, \* collectEntropy: entropyParts
    seedBytes,    \* Generate: seedBytes
    maxAttempts,  \* Generate: maxAttempts
    attempt,      \* Generate: attempt
    candidate,    \* Generate: candidateID
    ret,          \* what the last call returned: [id, err]
    \* history variables
    epoch,        \* bag of the IDs returned since the issued set was last cleared
    provCalls,    \* Provide invocations of the call
    provLog,      \* the Provide calls that returned: provider and output, in order
    provErr,      \* the error a Provide call of the call returned, or ErrNil
    built,        \* candidates built by the call
    sinceDone,    \* candidates the call built while its context was done
    checkedDone,  \* the call has reached a deadline check with its context done
    reachedCap,   \* idCounter >= MaxUniqueIDs held when the call took the lock
    didReset,     \* number of times the call cleared the issued set
    freshAtInsert,\* the ID was absent from g.generated when the call inserted it
    atLock,       \* g.generated and g.idCounter when the call took the lock
    \* applications of the pure functions
    mixSeed,      \* generateCandidateID: seedBytes of the application
    mixed,        \* the candidates built for the draws 0, 1, 2, ... in turn
    numIDs,       \* GetUniquenessProbability: its argument
    probability,  \* GetUniquenessProbability: its results
    \* the ID validator (validator.go)
    validator,    \* an *IDValidator: its four fields
    vid,          \* the argument of the last Validate call on the validator as it is
    verr,         \* what that call returned, <<>> before the first call
    \* the basic generator (validator.go, from line 209)
    gen,          \* a *Generator: alphabet, size, entropy
    lastOption,   \* the last Option applied to it: name, arg, and gen before it
    gret,         \* what the last Generate on the generator as it is returned
    gcheck,       \* the last Validate / IsValidID: the string and the two answers
    \* the entropy aggregator (sources_test.go, SecureEntropyAggregator)
    aggProviders, \* s.providers
    aggPc,        \* position of the caller of Aggregate
    aggGo,        \* the goroutine of each provider: where it is and what Provide gave
    aggParts,     \* Aggregate: entropyParts
    aggErrs,      \* Aggregate: errs
    aggWg,        \* Aggregate: the counter of wg
    aggRet,       \* what Aggregate returned: [digest, err, errs], <<>> before
    \* further ExtendedGenerator instances, built from the same options
    others,       \* of each: the map g.generated refers to, g.idCounter, and what
                  \* its last Generate returned
    maps,         \* the maps made for them: the set of keys of each
    \* the secure token (GenerateSecureToken, MustGenerateSecureToken)
    tokLength,    \* the argument length
    tokPc,        \* position of the caller in GenerateSecureToken
    tokB,         \* GenerateSecureToken: b
    tokRet,       \* what the call did: [token, err, panic], <<>> before
    \* one entropy provider instance used by several goroutines at a time
    shared,       \* the instance: its kind and its fields
    gor           \* of each goroutine: its position in Provide and its locals

vars == << config, callers, generated, idCounter, mu, pc, ctx, entropyParts,
           seedBytes, maxAttempts, attempt, candidate, ret, epoch, provCalls,
           provLog, provErr, built, sinceDone, checkedDone, reachedCap, didReset,
           freshAtInsert, atLock, mixSeed, mixed, numIDs, probability,
           validator, vid, verr, gen, lastOption, gret, gcheck,
           aggProviders, aggPc, aggGo, aggParts, aggErrs, aggWg, aggRet,
           others, maps, tokLength, tokPc, tokB, tokRet, shared, gor >>

callVars == << entropyParts, seedBytes, maxAttempts, attempt, candidate >>
histVars == << provCalls, provLog, provErr, built, sinceDone, checkedDone,
               reachedCap, didReset, freshAtInsert, atLock >>
pureVars == << mixSeed, mixed, numIDs, probability >>
valVars == << validator, vid, verr >>
basicVars == << gen, lastOption, gret, gcheck >>
aggVars == << aggProviders, aggPc, aggGo, aggParts, aggErrs, aggWg, aggRet >>
otherVars == << others, maps >>
tokenVars == << tokLength, tokPc, tokB, tokRet >>
shareVars == << shared, gor >>
moreVars == << tokenVars, shareVars >>
libVars == << valVars, basicVars, aggVars, otherVars, moreVars >>
\* the ExtendedGenerator, its callers and the applications of its functions
extVars == << config, callers, generated, idCounter, mu, pc, ctx, ret, epoch,
              callVars, histVars, pureVars >>

NoID == <<>>

\* NewExtendedGenerator: empty map, zero counter, unlocked mutex
InitInstance ==
    /\ generated = {}
    /\ idCounter = 0
    /\ mu = FALSE
    /\ epoch = EmptyBag
    /\ pc = [p \in Procs |-> "idle"]
    /\ ctx = [p \in Procs |-> "live"]
    /\ entropyParts = [p \in Procs |-> <<>>]
    /\ seedBytes = [p \in Procs |-> <<>>]
    /\ maxAttempts = [p \in Procs |-> 0]
    /\ attempt = [p \in Procs |-> 0]
    /\ candidate = [p \in Procs |-> NoID]
    /\ ret = [p \in Procs |-> [id |-> NoID, err |-> ErrNil]]
    /\ provCalls = [p \in Procs |-> 0]
    /\ provLog = [p \in Procs |-> <<>>]
    /\ provErr = [p \in Procs |-> ErrNil]
    /\ built = [p \in Procs |-> 0]
    /\ sinceDone = [p \in Procs |-> 0]
    /\ checkedDone = [p \in Procs |-> FALSE]
    /\ reachedCap = [p \in Procs |-> FALSE]
    /\ didReset = [p \in Procs |-> 0]
    /\ freshAtInsert = [p \in Procs |-> FALSE]
    /\ atLock = [p \in Procs |-> <<>>]

\* no pure function is being applied
NoApplication ==
    /\ mixSeed = <<>>
    /\ mixed = <<>>
    /\ numIDs = <<>>
    /\ probability = <<>>

\* no ID validator has been built
NoValidator ==
    /\ validator = <<>>
    /\ vid = <<>>
    /\ verr = <<>>

\* no basic generator has been built
NoBasic ==
    /\ gen = <<>>
    /\ lastOption = <<>>
    /\ gret = <<>>
    /\ gcheck = <<>>

\* no aggregator has been built
NoAggregator ==
    /\ aggProviders = <<>>
    /\ aggPc = "none"
    /\ aggGo = <<>>
    /\ aggParts = <<>>
    /\ aggErrs = <<>>
    /\ aggWg = 0
    /\ aggRet = <<>>

\* there is one ExtendedGenerator only
NoOthers ==
    /\ others = <<>>
    /\ maps = <<>>

\* no secure token is asked for
NoToken ==
    /\ tokLength = 0
    /\ tokPc = "none"
    /\ tokB = <<>>
    /\ tokRet = <<>>

\* no provider instance is shared
NoShared ==
    /\ shared = <<>>
    /\ gor = <<>>

NoMore ==
    /\ NoToken
    /\ NoShared

\* the program uses nothing but one ExtendedGenerator
NoLibrary ==
    /\ NoValidator
    /\ NoBasic
    /\ NoAggregator
    /\ NoOthers
    /\ NoMore

Init ==
    /\ config \in SmallConfigs
    /\ callers = Procs
    /\ InitInstance
    /\ NoApplication
    /\ NoLibrary

InitSeq ==
    /\ config \in SeqConfigs
    /\ callers = {"p1"}
    /\ InitInstance
    /\ NoApplication
    /\ NoLibrary

\* ------------------------------------------------------- pure functions

N == Len(config.Alphabet)

\* lines 70-72: len(g.config.Alphabet) < 2
AlphabetInvalid == Len(config.Alphabet) < 2

\* slip: the size check written with < instead of <=
SizeInvalidNegativeOnly == config.Size < 0

\* lines 73-75: g.config.Size <= 0
SizeInvalid == config.Size <= 0

\* slip: the size check placed before the alphabet check
validateConfigSizeFirst ==
    IF SizeInvalid THEN ErrInvalidSize
    ELSE IF AlphabetInvalid THEN ErrInvalidAlphabet ELSE ErrNil

\* lines 69-75: the error of the configuration checks, in the order of the code
validateConfig ==
    IF AlphabetInvalid THEN ErrInvalidAlphabet
    ELSE IF SizeInvalid THEN ErrInvalidSize ELSE ErrNil

\* slip: the attempt bound without the cap of 1000
calculateMaxAttemptsNoCap(alphabetLen, size, uniquenessPressure) ==
    (Pow(alphabetLen, size) * uniquenessPressure.num) \div uniquenessPressure.den

\* lines 171-177: int(math.Min(math.Pow(alphabetLen, size) * pressure, 1000))
calculateMaxAttempts(alphabetLen, size, uniquenessPressure) ==
    Min2((Pow(alphabetLen, size) * uniquenessPressure.num) \div uniquenessPressure.den,
         HardCap)

\* slip: the issued set is never cleared
ResetNeededNever == FALSE

\* slip: the issued set cleared by every call
ResetNeededAlways == TRUE

\* slip: the cap compared with > instead of >=
ResetNeededStrict == idCounter > config.MaxUniqueIDs

\* line 96: g.idCounter >= g.config.MaxUniqueIDs
ResetNeeded == idCounter >= config.MaxUniqueIDs

\* the outcomes of rand.Int(rand.Reader, alphabetLen) that are explored
DrawSet == 0 .. (Min2(N, MaxDraw) - 1)

\* slip: the seed byte multiplied with the draw instead of added to it
MixIndexTimes(num, seed, i) ==
    IF Len(seed) > 0 THEN (num * seed[(i % Len(seed)) + 1]) % N ELSE num

\* slip: the seed byte added without the reduction modulo the alphabet length
MixIndexNoMod(num, seed, i) ==
    IF Len(seed) > 0 THEN num + seed[(i % Len(seed)) + 1] ELSE num

\* lines 153-162: the alphabet index of position i (0-based) for the draw num
MixIndex(num, seed, i) ==
    IF Len(seed) > 0 THEN (num + seed[(i % Len(seed)) + 1]) % N ELSE num

\* line 164: g.config.Alphabet[num.Int64()] is a valid index expression
IndexInRange(idx) == idx >= 0 /\ idx < N

\* lines 147-168: the candidate built from the draws of the Size positions
generateCandidateID(draws, seed) ==
    [i \in 1..config.Size |-> config.Alphabet[MixIndex(draws[i], seed, i - 1) + 1]]

\* slip: the uniqueness check always finds the candidate new
IsIssuedNever(id) == FALSE

\* line 115: g.generated[candidateID]
IsIssued(id) == id \in generated

\* slip: Generate without the lock
MutexFreeAlways == TRUE

\* sync.Mutex: Lock() proceeds only when the mutex is unlocked
MutexFree == mu = FALSE

\* slip: the deadline checks read the caller's context, not timeoutCtx
CtxDoneCallerOnly(p) == ctx[p] \in {"precancelled", "cancelled"}

\* <-timeoutCtx.Done(): the caller's context is done or MaxGenerationTime elapsed
CtxDone(p) == ctx[p] # "live"

\* slip: collectEntropy without its context check
EntropyCtxCheckNever(p) == FALSE

\* lines 131-133: case <-ctx.Done() in collectEntropy
EntropyCtxCheck(p) == CtxDone(p)

\* slip: the retry loop without its deadline check
LoopCtxCheckNever(p) == FALSE

\* slip: the deadline checked on the first attempt only
LoopCtxCheckFirstOnly(p) == attempt[p] = 0 /\ CtxDone(p)

\* lines 103-109: if attempt%10 == 0 { select { case <-timeoutCtx.Done() ...
LoopCtxCheck(p) == attempt[p] % CheckEvery = 0 /\ CtxDone(p)

\* slip: the loop gives up one attempt early
LoopContinuesOneLess(p) == attempt[p] + 1 < maxAttempts[p]

\* line 101: attempt < maxAttempts
LoopContinues(p) == attempt[p] < maxAttempts[p]

\* line 78: context.WithTimeout(ctx, g.config.MaxGenerationTime): a context whose
\* parent is done, or whose deadline has already passed, is done at once
WithTimeout(c) ==
    IF c # "live" THEN c
    ELSE IF config.MaxGenerationTime <= 0 THEN "expired" ELSE "live"

\* slip: every failure of collectEntropy reported as a timeout
collectEntropyErrAsTimeout(err) == ErrGenerationTimeout

\* lines 136-138 and 83-85: the provider's error is returned as it is
collectEntropyErr(err) == err

\* line 129: the provider of the current iteration of the loop of collectEntropy
NextProvider(p) == config.Entropy[Len(entropyParts[p]) + 1]

InFlight == {"lock", "validate", "entropy", "provide", "loop", "build", "test", "insert"}
\* positions between g.mu.Lock() and the deferred g.mu.Unlock()
Locked == {"validate", "entropy", "provide", "loop", "build", "test", "insert"}
\* positions at which timeoutCtx exists and its timer runs
Timed == {"entropy", "provide", "loop", "build", "test", "insert"}

\* ---------------------------------------------------------------- actions

\* slip: the mutex is left as it is when the call returns
UnlockSkipped == mu

\* line 67: the deferred g.mu.Unlock() leaves the mutex unlocked
Unlock == FALSE

\* return id, err: the deferred cancel() and g.mu.Unlock() run, the locals die
Return(p, id, err) ==
    /\ pc' = [pc EXCEPT ![p] = "done"]
    /\ ret' = [ret EXCEPT ![p] = [id |-> id, err |-> err]]
    /\ mu' = Unlock
    /\ entropyParts' = [entropyParts EXCEPT ![p] = <<>>]
    /\ seedBytes' = [seedBytes EXCEPT ![p] = <<>>]
    /\ maxAttempts' = [maxAttempts EXCEPT ![p] = 0]
    /\ attempt' = [attempt EXCEPT ![p] = 0]
    /\ candidate' = [candidate EXCEPT ![p] = NoID]

\* a goroutine calls g.Generate(ctx); the caller's context may already be done
Start(p) ==
    /\ p \in callers
    /\ pc[p] \in {"idle", "done"}
    /\ pc' = [pc EXCEPT ![p] = "lock"]
    /\ \E c \in {"live", "precancelled"} : ctx' = [ctx EXCEPT ![p] = c]
    /\ ret' = [ret EXCEPT ![p] = [id |-> NoID, err |-> ErrNil]]
    /\ provCalls' = [provCalls EXCEPT ![p] = 0]
    /\ provLog' = [provLog EXCEPT ![p] = <<>>]
    /\ provErr' = [provErr EXCEPT ![p] = ErrNil]
    /\ built' = [built EXCEPT ![p] = 0]
    /\ sinceDone' = [sinceDone EXCEPT ![p] = 0]
    /\ checkedDone' = [checkedDone EXCEPT ![p] = FALSE]
    /\ reachedCap' = [reachedCap EXCEPT ![p] = FALSE]
    /\ didReset' = [didReset EXCEPT ![p] = 0]
    /\ freshAtInsert' = [freshAtInsert EXCEPT ![p] = FALSE]
    /\ atLock' = [atLock EXCEPT ![p] = <<>>]
    /\ UNCHANGED << config, callers, generated, idCounter, mu, epoch, callVars >>
    /\ UNCHANGED << pureVars, libVars >>

\* the caller cancels its context (or its deadline passes) during the call
Cancel(p) ==
    /\ pc[p] \in InFlight
    /\ ctx[p] = "live"
    /\ ctx' = [ctx EXCEPT ![p] = "cancelled"]
    /\ UNCHANGED << config, callers, generated, idCounter, mu, pc, ret, epoch,
                    callVars, histVars >>
    /\ UNCHANGED << pureVars, libVars >>

\* MaxGenerationTime elapses during the call
Expire(p) ==
    /\ pc[p] \in Timed
    /\ ctx[p] = "live"
    /\ ctx' = [ctx EXCEPT ![p] = "expired"]
    /\ UNCHANGED << config, callers, generated, idCounter, mu, pc, ret, epoch,
                    callVars, histVars >>
    /\ UNCHANGED << pureVars, libVars >>

\* line 66: g.mu.Lock()
Lock(p) ==
    /\ pc[p] = "lock"
    /\ MutexFree
    /\ mu' = TRUE
    /\ pc' = [pc EXCEPT ![p] = "validate"]
    /\ reachedCap' = [reachedCap EXCEPT ![p] = (idCounter >= config.MaxUniqueIDs)]
    /\ atLock' = [atLock EXCEPT ![p] = [generated |-> generated, idCounter |-> idCounter]]
    /\ UNCHANGED << config, callers, generated, idCounter, ctx, ret, epoch, callVars,
                    provCalls, provLog, provErr, built, sinceDone, checkedDone,
                    didReset, freshAtInsert >>
    /\ UNCHANGED << pureVars, libVars >>

\* lines 69-79: validate the configuration, derive timeoutCtx
Validate(p) ==
    /\ pc[p] = "validate"
    /\ IF validateConfig # ErrNil
         THEN Return(p, NoID, validateConfig) /\ UNCHANGED ctx
         ELSE /\ pc' = [pc EXCEPT ![p] = "entropy"]
              /\ ctx' = [ctx EXCEPT ![p] = WithTimeout(ctx[p])]
              /\ UNCHANGED << mu, ret, callVars >>
    /\ UNCHANGED << config, callers, generated, idCounter, epoch, histVars >>
    /\ UNCHANGED << pureVars, libVars >>

\* lines 129-134: one iteration of the loop of collectEntropy, up to the call
\* of provider.Provide(ctx)
CollectEntropy(p) ==
    /\ pc[p] = "entropy"
    /\ Len(entropyParts[p]) < Len(config.Entropy)
    /\ checkedDone' = [checkedDone EXCEPT ![p] = @ \/ ctx[p] # "live"]
    /\ IF EntropyCtxCheck(p)
         THEN /\ Return(p, NoID, ErrGenerationTimeout)
              /\ UNCHANGED provCalls
         ELSE /\ provCalls' = [provCalls EXCEPT ![p] = @ + 1]
              /\ pc' = [pc EXCEPT ![p] = "provide"]
              /\ UNCHANGED << ret, mu, callVars >>
    /\ UNCHANGED << config, callers, generated, idCounter, ctx, epoch, provLog,
                    provErr, built, sinceDone, reachedCap, didReset, freshAtInsert >>
    /\ UNCHANGED << atLock, pureVars, libVars >>

\* lines 135-139: provider.Provide(ctx) returns a string or an error
Provide(p) ==
    /\ pc[p] = "provide"
    /\ LET name == NextProvider(p) IN
         \/ \E out \in ProviderOuts(name) :
               /\ entropyParts' = [entropyParts EXCEPT ![p] = Append(@, out)]
               /\ provLog' = [provLog EXCEPT ![p] =
                                 Append(@, [name |-> name, out |-> out])]
               /\ pc' = [pc EXCEPT ![p] = "entropy"]
               /\ UNCHANGED << ret, mu, seedBytes, maxAttempts, attempt, candidate,
                               provErr >>
         \/ \E err \in ProvideErrors(name, ctx[p]) :
               /\ provLog' = [provLog EXCEPT ![p] =
                                 Append(@, [name |-> name, out |-> <<>>])]
               /\ provErr' = [provErr EXCEPT ![p] = err]
               /\ Return(p, NoID, collectEntropyErr(err))
    /\ UNCHANGED << config, callers, generated, idCounter, ctx, epoch, provCalls,
                    built, sinceDone, checkedDone, reachedCap, didReset, freshAtInsert >>
    /\ UNCHANGED << atLock, pureVars, libVars >>

\* lines 87-99: collectEntropy has returned; attempt bound, seed, reset of the
\* issued set when the counter has reached the cap
Prepare(p) ==
    /\ pc[p] = "entropy"
    /\ Len(entropyParts[p]) = Len(config.Entropy)
    /\ maxAttempts' = [maxAttempts EXCEPT ![p] =
           calculateMaxAttempts(N, config.Size, config.UniquenessPressure)]
    /\ seedBytes' = [seedBytes EXCEPT ![p] = Join(entropyParts[p])]
    /\ IF ResetNeeded
         THEN /\ generated' = {}
              /\ idCounter' = 0
              /\ epoch' = EmptyBag
              /\ didReset' = [didReset EXCEPT ![p] = @ + 1]
         ELSE UNCHANGED << generated, idCounter, epoch, didReset >>
    /\ attempt' = [attempt EXCEPT ![p] = 0]
    /\ pc' = [pc EXCEPT ![p] = "loop"]
    /\ UNCHANGED << config, callers, mu, ctx, entropyParts, candidate, ret, provCalls,
                    provLog, provErr, built, sinceDone, checkedDone, reachedCap,
                    freshAtInsert >>
    /\ UNCHANGED << atLock, pureVars, libVars >>

\* lines 101-109 and 122: loop condition and deadline check of one attempt
LoopHead(p) ==
    /\ pc[p] = "loop"
    /\ IF ~LoopContinues(p)
         THEN /\ Return(p, NoID, ErrGenerationTimeout)
              /\ UNCHANGED checkedDone
         ELSE
           /\ checkedDone' = [checkedDone EXCEPT ![p] =
                  @ \/ (attempt[p] % CheckEvery = 0 /\ ctx[p] # "live")]
           /\ IF LoopCtxCheck(p)
                THEN Return(p, NoID, ErrGenerationTimeout)
                ELSE /\ pc' = [pc EXCEPT ![p] = "build"]
                     /\ UNCHANGED << ret, mu, callVars >>
    /\ UNCHANGED << config, callers, generated, idCounter, ctx, epoch, provCalls,
                    provLog, provErr, built, sinceDone, reachedCap, didReset,
                    freshAtInsert >>
    /\ UNCHANGED << atLock, pureVars, libVars >>

\* line 112: candidateID := g.generateCandidateID(seedBytes); indexing the
\* alphabet out of range panics, and the deferred Unlock runs
Build(p) ==
    /\ pc[p] = "build"
    /\ built' = [built EXCEPT ![p] = @ + 1]
    /\ sinceDone' = [sinceDone EXCEPT ![p] = IF ctx[p] # "live" THEN @ + 1 ELSE @]
    /\ \E draws \in [1..config.Size -> DrawSet] :
         IF \A i \in 1..config.Size :
                IndexInRange(MixIndex(draws[i], seedBytes[p], i - 1))
           THEN /\ candidate' = [candidate EXCEPT ![p] =
                       generateCandidateID(draws, seedBytes[p])]
                /\ pc' = [pc EXCEPT ![p] = "test"]
                /\ UNCHANGED << ret, mu, entropyParts, seedBytes, maxAttempts, attempt >>
           ELSE Return(p, NoID, ErrPanic)
    /\ UNCHANGED << config, callers, generated, idCounter, ctx, epoch, provCalls,
                    provLog, provErr, checkedDone, reachedCap, didReset, freshAtInsert >>
    /\ UNCHANGED << atLock, pureVars, libVars >>

\* line 115: if !g.generated[candidateID]; a duplicate goes to the next attempt
TestUnique(p) ==
    /\ pc[p] = "test"
    /\ IF IsIssued(candidate[p])
         THEN /\ attempt' = [attempt EXCEPT ![p] = @ + 1]
              /\ candidate' = [candidate EXCEPT ![p] = NoID]
              /\ pc' = [pc EXCEPT ![p] = "loop"]
         ELSE /\ pc' = [pc EXCEPT ![p] = "insert"]
              /\ UNCHANGED << attempt, candidate >>
    /\ UNCHANGED << config, callers, generated, idCounter, mu, ctx, entropyParts,
                    seedBytes, maxAttempts, ret, epoch, histVars >>
    /\ UNCHANGED << pureVars, libVars >>

\* lines 116-118: record the ID, count it, return it
Insert(p) ==
    /\ pc[p] = "insert"
    /\ freshAtInsert' = [freshAtInsert EXCEPT ![p] = candidate[p] \notin generated]
    /\ generated' = generated \cup {candidate[p]}
    /\ idCounter' = idCounter + 1
    /\ epoch' = epoch (+) SetToBag({candidate[p]})
    /\ Return(p, candidate[p], ErrNil)
    /\ UNCHANGED << config, callers, ctx, provCalls, provLog, provErr, built,
                    sinceDone, checkedDone, reachedCap, didReset >>
    /\ UNCHANGED << atLock, pureVars, libVars >>

\* line 182: math.Pow(float64(alphabetSize), float64(Size)) is 0 exactly when
\* the alphabet is empty and Size is positive (math.Pow(0, 0) is 1)
CombinationsZero == N = 0 /\ config.Size > 0

\* lines 180-191.  The result is determined by the exponent
\* -float64(n * (n - 1)) / (2 * possibleCombinations), the product being computed
\* in int arithmetic; it is returned as its class and the product:
\*   "NaN"   : product 0 and 0 combinations (-0 / 0)
\*   "one"   : exponent -0, math.Exp gives 1, the result is exactly 1
\*   "unit"  : exponent < 0 (or -Inf), the result is in [0, 1]
\*   "above" : exponent > 0 (or +Inf): math.Exp gives more than 1 for the ID
\*             spaces of ProbConfigs (at most 1024 IDs), the result is above 1
GetUniquenessProbability(n) ==
    LET product == IntMul(n, IntAdd(n, MinusOne(Len(n))))
    IN [ class |-> IF IntIsZero(product)
                     THEN (IF CombinationsZero THEN "NaN" ELSE "one")
                     ELSE IF IntIsNegative(product) THEN "above" ELSE "unit",
         product |-> product ]

\* a caller asks for the probability of numIDs, then of numIDs + 1, ...
Query ==
    /\ Len(probability) < MaxQueries
    /\ probability' = Append(probability,
                             [n |-> numIDs, p |-> GetUniquenessProbability(numIDs)])
    /\ numIDs' = IF numIDs = MaxInt(Len(numIDs)) THEN numIDs
                 ELSE IntAdd(numIDs, Pad(<<1>>, Len(numIDs)))
    /\ UNCHANGED << config, callers, generated, idCounter, mu, pc, ctx, ret, epoch,
                    callVars, histVars, mixSeed, mixed, libVars >>

\* the k-th (k = 0, 1, ...) combination of rand.Int outcomes for the Size positions
DrawsOf(k) == [i \in 1..config.Size |-> (k \div Pow(N, i - 1)) % N]

\* lines 147-168 applied to mixSeed with the next combination of draws
MixDraw ==
    /\ Len(mixed) < Pow(N, config.Size)
    /\ LET draws == DrawsOf(Len(mixed))
           index == [i \in 1..config.Size |-> MixIndex(draws[i], mixSeed, i - 1)]
       IN mixed' = Append(mixed,
              [ draws |-> draws,
                index |-> index,
                id |-> IF \A i \in 1..config.Size : IndexInRange(index[i])
                         THEN generateCandidateID(draws, mixSeed)
                         ELSE NoID ])
    /\ UNCHANGED << config, callers, generated, idCounter, mu, pc, ctx, ret, epoch,
                    callVars, histVars, mixSeed, numIDs, probability, libVars >>

Next ==
    \E p \in Procs :
        \/ Start(p)
        \/ Cancel(p)
        \/ Expire(p)
        \/ Lock(p)
        \/ Validate(p)
        \/ CollectEntropy(p)
        \/ Provide(p)
        \/ Prepare(p)
        \/ LoopHead(p)
        \/ Build(p)
        \/ TestUnique(p)
        \/ Insert(p)

\* two goroutines share an instance with a small configuration
Spec == Init /\ [][Next]_vars

\* one goroutine, the configurations of SeqConfigs
SpecSeq == InitSeq /\ [][Next]_vars

\* the steps of the call of p after it was made: taking the lock, and each
\* step from there to the return
Acquire(p) == Lock(p)
Proceed(p) ==
    \/ Validate(p)
    \/ CollectEntropy(p)
    \/ Provide(p)
    \/ Prepare(p)
    \/ LoopHead(p)
    \/ Build(p)
    \/ TestUnique(p)
    \/ Insert(p)

\* configurations of the runs in which every call is carried on: a provider
\* that may fail and an ID space of 2 below the cap of 3, so that calls exhaust
\* their attempts; a reset by every second call; no time to generate; an
\* invalid alphabet
LiveConfigs ==
    { Cfg(Letters(2), 1, <<"network">>, 1, 1, 3, 1),
      Cfg(Letters(2), 1, <<>>, 1, 1, 1, 1),
      Cfg(Letters(2), 1, <<"timestamp">>, 1, 1, 2, 0),
      Cfg(Letters(1), 1, <<"timestamp">>, 1, 1, 2, 1) }

InitLive ==
    /\ config \in LiveConfigs
    /\ callers = Procs
    /\ InitInstance
    /\ NoApplication
    /\ NoLibrary

\* two goroutines share an instance; a goroutine that is in Generate goes on
\* running, every Provide call returns, and a goroutine blocked in Lock gets
\* the mutex when it is unlocked again and again (sync.Mutex hands the mutex
\* to a goroutine that has waited, its starvation mode)
SpecLive ==
    /\ InitLive
    /\ [][Next]_vars
    /\ \A p \in Procs : WF_vars(Proceed(p)) /\ SF_vars(Acquire(p))

\* generateCandidateID alone, for every alphabet of MixConfigs and seed of MixSeeds
InitMix ==
    /\ config \in MixConfigs
    /\ callers = {}
    /\ InitInstance
    /\ mixSeed \in MixSeeds
    /\ mixed = <<>>
    /\ numIDs = <<>>
    /\ probability = <<>>
    /\ NoLibrary

NextMix == MixDraw

SpecMix == InitMix /\ [][NextMix]_vars

\* GetUniquenessProbability alone, on builds with 32-bit and with 64-bit ints
InitProb ==
    /\ config \in ProbConfigs
    /\ callers = {}
    /\ InitInstance
    /\ mixSeed = <<>>
    /\ mixed = <<>>
    /\ \E w \in IntSizes : numIDs \in ProbInputs(w)
    /\ probability = <<>>
    /\ NoLibrary

NextProb == Query

SpecProb == InitProb /\ [][NextProb]_vars

\* ------------------------------------------------------------ ID validator
\* validator.go.  Strings are sequences of bytes; the IDs of the model are ASCII,
\* for which the bytes of a string are its runes.

ErrIDTooShort == "ErrIDTooShort"
ErrIDTooLong == "ErrIDTooLong"
ErrWeakID == "ErrWeakID"
\* line 114: the error made of the pattern, which wraps no predefined error
ErrForbiddenPattern == "ID matches forbidden pattern"

DefaultMinLength == 8
DefaultMaxLength == 128

\* the regular expressions of the model, by their source text
PatPassword == "(?i)password"
PatZeros == "^0+$"
PatNines == "^9+$"
PatDigits4 == "\\d{4}"
\* a text regexp.Compile rejects
PatUnclosed == "("

Password == << 112, 97, 115, 115, 119, 111, 114, 100 >>

IsDigit(b) == b >= 48 /\ b <= 57

\* case folding of (?i) on ASCII letters
Fold(b) == IF b >= 65 /\ b <= 90 THEN b + 32 ELSE b

\* regexp.Compile(pattern) succeeds
Compiles(pattern) == pattern \in {PatPassword, PatZeros, PatNines, PatDigits4}

\* id has n digits in a row
HasDigitRun(id, n) ==
    \E k \in 1..Len(id) :
        /\ k + n - 1 <= Len(id)
        /\ \A j \in k..(k + n - 1) : IsDigit(id[j])

\* pattern.MatchString(id)
MatchString(pattern, id) ==
    CASE pattern = PatPassword ->
            \E k \in 1..Len(id) :
                /\ k + Len(Password) - 1 <= Len(id)
                /\ \A j \in 1..Len(Password) : Fold(id[k + j - 1]) = Password[j]
      [] pattern = PatZeros -> Len(id) > 0 /\ \A j \in 1..Len(id) : id[j] = 48
      [] pattern = PatNines -> Len(id) > 0 /\ \A j \in 1..Len(id) : id[j] = 57
      [] pattern = PatDigits4 -> HasDigitRun(id, 4)
      [] OTHER -> FALSE

\* lines 41-57
DefaultCharSets ==
    << [ CharSet |-> [i \in 1..10 |-> 47 + i], MinCount |-> 1,
         Description |-> "at least one digit" ],
       [ CharSet |-> [i \in 1..26 |-> 64 + i], MinCount |-> 1,
         Description |-> "at least one uppercase letter" ],
       [ CharSet |-> [i \in 1..26 |-> 96 + i], MinCount |-> 1,
         Description |-> "at least one lowercase letter" ] >>

\* lines 38-63: the validator before the options are applied
NewIDValidator ==
    [ minLength |-> DefaultMinLength,
      maxLength |-> DefaultMaxLength,
      requiredCharSet |-> DefaultCharSets,
      forbiddenPatterns |-> << PatPassword, PatZeros, PatNines >> ]

\* lines 119-129: the sum, over the characters of CharSet, of their counts in id
CharCount(id, charSet) ==
    Cardinality({ pos \in (1..Len(charSet)) \X (1..Len(id)) :
                      charSet[pos[1]] = id[pos[2]] })

ClassMissingNever(id, req) == FALSE

\* line 130
ClassMissing(id, req) == CharCount(id, req.CharSet) < req.MinCount

TooShortInclusive(v, id) == Len(id) <= v.minLength

\* line 104
TooShort(v, id) == Len(id) < v.minLength

\* line 107
TooLong(v, id) == Len(id) > v.maxLength

NoError == [ err |-> ErrNil, pattern |-> "", missing |-> <<>> ]

\* lines 102-142: the error returned, as the predefined error it wraps, the
\* pattern it prints and the descriptions it joins
IDValidatorValidate(v, id) ==
    IF TooShort(v, id)
    THEN [ NoError EXCEPT !.err = ErrIDTooShort ]
    ELSE IF TooLong(v, id)
    THEN [ NoError EXCEPT !.err = ErrIDTooLong ]
    ELSE IF \E k \in 1..Len(v.forbiddenPatterns) : MatchString(v.forbiddenPatterns[k], id)
    THEN LET first == CHOOSE k \in 1..Len(v.forbiddenPatterns) :
                         /\ MatchString(v.forbiddenPatterns[k], id)
                         /\ \A j \in 1..(k - 1) : ~MatchString(v.forbiddenPatterns[j], id)
         IN [ NoError EXCEPT !.err = ErrForbiddenPattern,
                             !.pattern = v.forbiddenPatterns[first] ]
    ELSE LET unmet(req) == ClassMissing(id, req)
             missing == SelectSeq(v.requiredCharSet, unmet)
         IN IF Len(missing) > 0
            THEN [ NoError EXCEPT !.err = ErrWeakID,
                       !.missing = [i \in 1..Len(missing) |-> missing[i].Description] ]
            ELSE NoError

\* the IDs handed to Validate: every string of at most MaxIDLen of the bytes
\* '0', '9', 'A', 'a', and "abcABC1234", "abcABC123", "PassWord1"
MaxIDLen == 3
MaxPatterns == 1

ValBytes == {48, 57, 65, 97}

ValIDs ==
    UNION { [1..n -> ValBytes] : n \in 0..MaxIDLen }
    \cup { << 97, 98, 99, 65, 66, 67, 49, 50, 51, 52 >>,
           << 97, 98, 99, 65, 66, 67, 49, 50, 51 >>,
           << 80, 97, 115, 115, 87, 111, 114, 100, 49 >> }

ValLengths == {0, 2, MaxIDLen}

ValPatterns == {PatDigits4, PatUnclosed}

\* lines 74-80
WithMinLength(min) ==
    /\ validator # <<>>
    /\ validator' = IF min > 0 THEN [validator EXCEPT !.minLength = min] ELSE validator
    /\ vid' = <<>>
    /\ verr' = <<>>
    /\ UNCHANGED << extVars, basicVars, aggVars, otherVars, moreVars >>

\* lines 83-89
WithMaxLength(max) ==
    /\ validator # <<>>
    /\ validator' = IF max > 0 THEN [validator EXCEPT !.maxLength = max] ELSE validator
    /\ vid' = <<>>
    /\ verr' = <<>>
    /\ UNCHANGED << extVars, basicVars, aggVars, otherVars, moreVars >>

\* lines 92-99
AddForbiddenPattern(pattern) ==
    /\ validator # <<>>
    /\ Len(validator.forbiddenPatterns) < Len(NewIDValidator.forbiddenPatterns) + MaxPatterns
    /\ validator' = IF Compiles(pattern)
                    THEN [validator EXCEPT !.forbiddenPatterns = Append(@, pattern)]
                    ELSE validator
    /\ vid' = <<>>
    /\ verr' = <<>>
    /\ UNCHANGED << extVars, basicVars, aggVars, otherVars, moreVars >>

\* lines 102-142
ValidateID(id) ==
    /\ validator # <<>>
    /\ vid' = id
    /\ verr' = IDValidatorValidate(validator, id)
    /\ UNCHANGED validator
    /\ UNCHANGED << extVars, basicVars, aggVars, otherVars, moreVars >>

InitVal ==
    /\ config = Cfg(Letters(2), 1, <<>>, 1, 1, 1, 1)
    /\ callers = {}
    /\ InitInstance
    /\ NoApplication
    /\ validator = NewIDValidator
    /\ vid = <<>>
    /\ verr = <<>>
    /\ NoBasic
    /\ NoAggregator
    /\ NoOthers
    /\ NoMore

NextVal ==
    \/ \E min \in ValLengths : WithMinLength(min)
    \/ \E max \in ValLengths : WithMaxLength(max)
    \/ \E pattern \in ValPatterns : AddForbiddenPattern(pattern)
    \/ \E id \in ValIDs : ValidateID(id)

\* an IDValidator, its options and its Validate
SpecVal == InitVal /\ [][NextVal]_vars

\* ---------------------------------------------------------- basic generator
\* validator.go from line 209 (Generator) and part_003 (its options)

DefaultSize == 21

\* line 222: "0123456789abcdefghijklmnopqrstuvwxyzABCDEFGHIJKLMNOPQRSTUVWXYZ"
DefaultAlphabet ==
    [i \in 1..10 |-> 47 + i] \o [i \in 1..26 |-> 96 + i] \o [i \in 1..26 |-> 64 + i]

\* sources_test.go lines 468-476
DefaultEntropyProviders == << "timestamp", "uuid", "random", "system", "enhanced" >>

\* lines 234-238: the generator before the options are applied
New ==
    [ alphabet |-> DefaultAlphabet,
      size |-> DefaultSize,
      entropy |-> DefaultEntropyProviders ]

\* part_003 lines 9-15
WithAlphabet(g, alphabet) ==
    IF Len(alphabet) >= 2 THEN [g EXCEPT !.alphabet = alphabet] ELSE g

WithSizeNotNegative(g, size) ==
    IF size >= 0 THEN [g EXCEPT !.size = size] ELSE g

\* part_003 lines 36-42
WithSize(g, size) ==
    IF size > 0 THEN [g EXCEPT !.size = size] ELSE g

WithMinSizeRaising(g, minSize) ==
    IF minSize > 0 /\ minSize > g.size THEN [g EXCEPT !.size = minSize] ELSE g

\* part_003 lines 45-51
WithMinSize(g, minSize) ==
    IF minSize > 0 /\ minSize < g.size THEN [g EXCEPT !.size = minSize] ELSE g

\* part_003 lines 54-60
WithMaxSize(g, maxSize) ==
    IF maxSize > 0 /\ maxSize > g.size THEN [g EXCEPT !.size = maxSize] ELSE g

\* opt(g), lines 240-242
Apply(g, opt) ==
    CASE opt.name = "WithAlphabet" -> WithAlphabet(g, opt.arg)
      [] opt.name = "WithSize" -> WithSize(g, opt.arg)
      [] opt.name = "WithMinSize" -> WithMinSize(g, opt.arg)
      [] opt.name = "WithMaxSize" -> WithMaxSize(g, opt.arg)

RECURSIVE ApplyAll(_, _)
\* lines 240-242: the options applied in the order given
ApplyAll(g, opts) ==
    IF opts = <<>> THEN g ELSE ApplyAll(Apply(g, Head(opts)), Tail(opts))

\* utf8.RuneError
RuneError == 65533

RECURSIVE DecodeRunes(_)
\* the runes `for _, char := range s` yields: a byte below 0x80 is its rune, a
\* lead byte 0xC2..0xDF with a continuation byte 0x80..0xBF is a two-byte
\* rune, any other byte is one RuneError (the strings of the model have no
\* byte above 0xDF, so longer encodings do not occur)
DecodeRunes(s) ==
    IF s = <<>> THEN <<>>
    ELSE IF s[1] < 128 THEN << s[1] >> \o DecodeRunes(Tail(s))
    ELSE IF /\ s[1] >= 194 /\ s[1] <= 223
            /\ Len(s) >= 2 /\ s[2] >= 128 /\ s[2] <= 191
         THEN << (s[1] - 192) * 64 + (s[2] - 128) >> \o DecodeRunes(SubSeq(s, 3, Len(s)))
         ELSE << RuneError >> \o DecodeRunes(Tail(s))

\* strings.ContainsRune(s, r); for r = RuneError it finds an invalid byte of s
ContainsRune(s, r) ==
    LET runes == DecodeRunes(s) IN \E i \in 1..Len(runes) : runes[i] = r

\* basic_usage.go lines 85-97
IsValidID(id, alphabet, size) ==
    /\ Len(id) = size
    /\ LET runes == DecodeRunes(id)
       IN \A i \in 1..Len(runes) : ContainsRune(alphabet, runes[i])

\* lines 302-314
GeneratorValidate(g, id) ==
    /\ Len(id) = g.size
    /\ LET runes == DecodeRunes(id)
       IN \A i \in 1..Len(runes) : ContainsRune(g.alphabet, runes[i])

\* lines 278-286: the byte of the alphabet put at position i (from 0)
BasicSymbol(g, num, seed, i) ==
    LET mixedNum == IF Len(seed) > 0
                    THEN (num + seed[(i % Len(seed)) + 1]) % Len(g.alphabet)
                    ELSE num
    IN g.alphabet[mixedNum + 1]

\* the outcomes of rand.Int the model draws from
BasicDraws(g) == 0 .. (Min2(Len(g.alphabet), MaxDraw) - 1)

RECURSIVE Seeds(_)
\* lines 252-268: the seeds the providers of the list can give, each the
\* concatenation of one output per provider, in order
Seeds(entropy) ==
    IF entropy = <<>> THEN { <<>> }
    ELSE { out \o rest : out \in ProviderOuts(Head(entropy)), rest \in Seeds(Tail(entropy)) }

\* the error rand.Int returns when the system's random source fails
ErrRandReader == "Err:rand.Reader"

\* the bounds and arguments of the model
MaxGenSize == 2

SizeArgs == {-1, 0, 25} \cup (1..MaxGenSize)

\* "", "a", "ab", "aé" (the bytes 61 C3 A9), "é" (the bytes C3 A9)
AlphabetArgs == { <<>>, <<97>>, <<97, 98>>, <<97, 195, 169>>, <<195, 169>> }

Options ==
    { [name |-> "WithAlphabet", arg |-> a] : a \in AlphabetArgs }
    \cup { [name |-> n, arg |-> k] :
              n \in {"WithSize", "WithMinSize", "WithMaxSize"}, k \in SizeArgs }

\* the strings handed to Validate and IsValidID besides the generated IDs
\* "a", "ab", "a!", "é"
CheckStrings == { <<97>>, <<97, 98>>, <<97, 33>>, <<195, 169>> }

\* an Option is applied to the generator: by New (lines 240-242) or by the
\* caller, as the tests do
ApplyOption(opt) ==
    /\ gen # <<>>
    /\ gen' = Apply(gen, opt)
    /\ lastOption' = [ name |-> opt.name, arg |-> opt.arg, before |-> gen ]
    /\ gret' = <<>>
    /\ gcheck' = <<>>
    /\ UNCHANGED << extVars, valVars, aggVars, otherVars, moreVars >>

\* lines 247-290, on generators of size at most MaxGenSize.  The caller holds
\* g.mu for the whole call; the providers are called in order with
\* context.Background() and the first error is returned.
BasicGenerate ==
    /\ gen # <<>>
    /\ gen.size <= MaxGenSize
    /\ \/ \E k \in 1..Len(gen.entropy) :
            /\ ProviderFails(gen.entropy[k])
            /\ gret' = [ id |-> NoID, err |-> ProviderErr(gen.entropy[k]) ]
       \/ \E seed \in Seeds(gen.entropy) :
            \/ gret' = [ id |-> NoID, err |-> ErrRandReader ]
            \/ \E draws \in [ 1..gen.size -> BasicDraws(gen) ] :
                  gret' = [ id |-> [ i \in 1..gen.size |->
                                       BasicSymbol(gen, draws[i], seed, i - 1) ],
                            err |-> ErrNil ]
    /\ gcheck' = <<>>
    /\ UNCHANGED << gen, lastOption >>
    /\ UNCHANGED << extVars, valVars, aggVars, otherVars, moreVars >>

\* the answers of g.Validate(id) and IsValidID(id, g.alphabet, g.size)
Checked(id) ==
    [ id |-> id,
      validate |-> GeneratorValidate(gen, id),
      isValid |-> IsValidID(id, gen.alphabet, gen.size) ]

\* the caller validates a string of its own
CheckID(id) ==
    /\ gen # <<>>
    /\ gcheck' = Checked(id)
    /\ gret' = <<>>
    /\ UNCHANGED << gen, lastOption >>
    /\ UNCHANGED << extVars, valVars, aggVars, otherVars, moreVars >>

\* the caller validates the ID Generate just returned
CheckGenerated ==
    /\ gret # <<>>
    /\ gret.err = ErrNil
    /\ gcheck' = Checked(gret.id)
    /\ UNCHANGED << gen, lastOption, gret >>
    /\ UNCHANGED << extVars, valVars, aggVars, otherVars, moreVars >>

InitBasic ==
    /\ config = Cfg(Letters(2), 1, <<>>, 1, 1, 1, 1)
    /\ callers = {}
    /\ InitInstance
    /\ NoApplication
    /\ NoValidator
    /\ gen = New
    /\ lastOption = <<>>
    /\ gret = <<>>
    /\ gcheck = <<>>
    /\ NoAggregator
    /\ NoOthers
    /\ NoMore

NextBasic ==
    \/ \E opt \in Options : ApplyOption(opt)
    \/ BasicGenerate
    \/ \E id \in CheckStrings : CheckID(id)
    \/ CheckGenerated

\* a basic Generator, its options, Generate, Validate and IsValidID
SpecBasic == InitBasic /\ [][NextBasic]_vars

\* -------------------------------------------------------- entropy aggregator
\* sources_test.go lines 412-465 (SecureEntropyAggregator)

\* lines 420-424
AggregatorDefaults == << "enhanced", "system", "uuid" >>

NewSecureEntropyAggregatorAsGiven(providers) == providers

\* lines 417-427: s.providers
NewSecureEntropyAggregator(providers) ==
    IF Len(providers) = 0 THEN AggregatorDefaults ELSE providers

\* the provider lists the aggregator is built from
AggArgs ==
    { <<>>, << "network" >>, << "timestamp", "network" >>,
      << "random", "network", "timestamp" >> }

\* sha256.Size
Sha256Size == 32

\* hash.Sum(nil) after the bytes of data were written: Sha256Size bytes.  The
\* compression function is replaced by a sum that depends on every byte and on
\* its position; only the length of the result and its dependence on the
\* order of the parts are used.
Sum256(data) ==
    LET weight(i) == Cardinality({ pos \in (1..Len(data)) \X (0..255) :
                                       pos[2] < (data[pos[1]] * (pos[1] + i)) % 256 })
    IN [ i \in 1..Sha256Size |-> (weight(i) + 31 * i) % 256 ]

HexDigitUpper(d) == IF d < 10 THEN 48 + d ELSE 55 + d

\* the digit fmt.Sprintf("%x") prints for d in 0..15
HexDigit(d) == IF d < 10 THEN 48 + d ELSE 87 + d

\* fmt.Sprintf("%x", b) of a byte slice: two digits for each byte
Hex(b) ==
    [ k \in 1..(2 * Len(b)) |->
        IF k % 2 = 1 THEN HexDigit(b[(k + 1) \div 2] \div 16)
        ELSE HexDigit(b[k \div 2] % 16) ]

\* line 455
ErrEntropyCollection == "entropy collection errors"

Goroutines == 1..Len(aggProviders)

\* the positions a provider list of the model can have
AggSlots == UNION { 1..Len(NewSecureEntropyAggregator(a)) : a \in AggArgs }

WaitReturnsAtOnce == TRUE

\* line 452: wg.Wait() returns when the counter is zero
WaitReturns == aggWg = 0

\* line 429: a caller enters Aggregate
Aggregate ==
    /\ aggPc \in {"idle", "done"}
    /\ aggPc' = "spawn"
    /\ aggGo' = [ i \in Goroutines |-> [ st |-> "new", out |-> <<>>, err |-> ErrNil ] ]
    /\ aggParts' = <<>>
    /\ aggErrs' = <<>>
    /\ aggWg' = 0
    /\ aggRet' = <<>>
    /\ UNCHANGED aggProviders
    /\ UNCHANGED << extVars, valVars, basicVars, otherVars, moreVars >>

\* lines 435-437: wg.Add(1) and the go statement for the next provider
Spawn ==
    /\ aggPc = "spawn"
    /\ \E i \in Goroutines :
          /\ aggGo[i].st = "new"
          /\ \A j \in 1..(i - 1) : aggGo[j].st # "new"
          /\ aggGo' = [aggGo EXCEPT ![i].st = "started"]
          /\ aggWg' = aggWg + 1
    /\ UNCHANGED << aggProviders, aggPc, aggParts, aggErrs, aggRet >>
    /\ UNCHANGED << extVars, valVars, basicVars, otherVars, moreVars >>

\* the range loop is over: the caller reaches wg.Wait()
Spawned ==
    /\ aggPc = "spawn"
    /\ \A i \in Goroutines : aggGo[i].st # "new"
    /\ aggPc' = "wait"
    /\ UNCHANGED << aggProviders, aggGo, aggParts, aggErrs, aggWg, aggRet >>
    /\ UNCHANGED << extVars, valVars, basicVars, otherVars, moreVars >>

\* line 439: p.Provide(ctx) returns in goroutine i
GoProvide(i) ==
    /\ i \in DOMAIN aggGo
    /\ aggGo[i].st = "started"
    /\ \/ \E out \in ProviderOuts(aggProviders[i]) :
            aggGo' = [aggGo EXCEPT ![i] = [ st |-> "provided", out |-> out, err |-> ErrNil ]]
       \/ /\ ProviderFails(aggProviders[i])
          /\ aggGo' = [aggGo EXCEPT ![i] = [ st |-> "provided", out |-> <<>>,
                                             err |-> ProviderErr(aggProviders[i]) ]]
    /\ UNCHANGED << aggProviders, aggPc, aggParts, aggErrs, aggWg, aggRet >>
    /\ UNCHANGED << extVars, valVars, basicVars, otherVars, moreVars >>

\* lines 440-448 and the deferred wg.Done(): under mu, the error goes to errs
\* or the sample to entropyParts
GoAppend(i) ==
    /\ i \in DOMAIN aggGo
    /\ aggGo[i].st = "provided"
    /\ IF aggGo[i].err # ErrNil
       THEN /\ aggErrs' = Append(aggErrs, aggGo[i].err)
            /\ UNCHANGED aggParts
       ELSE /\ aggParts' = Append(aggParts, aggGo[i].out)
            /\ UNCHANGED aggErrs
    /\ aggGo' = [aggGo EXCEPT ![i].st = "done"]
    /\ aggWg' = aggWg - 1
    /\ UNCHANGED << aggProviders, aggPc, aggRet >>
    /\ UNCHANGED << extVars, valVars, basicVars, otherVars, moreVars >>

\* lines 452-464: wg.Wait() returns; the error of errs, or the digest of the
\* parts in the order the goroutines appended them
AggReturn ==
    /\ aggPc = "wait"
    /\ WaitReturns
    /\ aggPc' = "done"
    /\ aggRet' = IF Len(aggErrs) > 0
                 THEN [ digest |-> <<>>, err |-> ErrEntropyCollection, errs |-> aggErrs ]
                 ELSE [ digest |-> Hex(Sum256(Join(aggParts))), err |-> ErrNil,
                        errs |-> <<>> ]
    /\ UNCHANGED << aggProviders, aggGo, aggParts, aggErrs, aggWg >>
    /\ UNCHANGED << extVars, valVars, basicVars, otherVars, moreVars >>

InitAgg ==
    /\ config = Cfg(Letters(2), 1, <<>>, 1, 1, 1, 1)
    /\ callers = {}
    /\ InitInstance
    /\ NoApplication
    /\ NoValidator
    /\ NoBasic
    /\ \E providers \in AggArgs : aggProviders = NewSecureEntropyAggregator(providers)
    /\ aggPc = "idle"
    /\ aggGo = <<>>
    /\ aggParts = <<>>
    /\ aggErrs = <<>>
    /\ aggWg = 0
    /\ aggRet = <<>>
    /\ NoOthers
    /\ NoMore

NextAgg ==
    \/ Aggregate
    \/ Spawn
    \/ Spawned
    \/ \E i \in AggSlots : GoProvide(i)
    \/ \E i \in AggSlots : GoAppend(i)
    \/ AggReturn

\* a SecureEntropyAggregator and one caller of Aggregate at a time
SpecAgg == InitAgg /\ [][NextAgg]_vars

\* ------------------------------------------- construction of the configuration
\* extended_generator.go lines 41-62 and part_003 lines 17-33

DefaultMaxUniqueIDs == 10000

\* lines 43-50; 0.99 is written 99/100, 5 * time.Second is positive
DefaultConfig ==
    Cfg(DefaultAlphabet, DefaultSize, DefaultEntropyProviders, 99, 100,
        DefaultMaxUniqueIDs, 1)

\* part_003 lines 18-24
WithCustomAlphabet(c, alphabet) ==
    IF Len(alphabet) >= 2 THEN [c EXCEPT !.Alphabet = alphabet] ELSE c

\* part_003 lines 27-33
WithEntropyProviders(c, providers) ==
    IF Len(providers) > 0 THEN [c EXCEPT !.Entropy = providers] ELSE c

\* a function literal that assigns fields of the configuration, as in
\* TestExtendedGeneratorWithCustomOptions: the fields of set replace those of c
Assign(c, set) ==
    [ f \in DOMAIN c |-> IF f \in DOMAIN set THEN set[f] ELSE c[f] ]

\* opt(&config), line 54
ApplyConfig(c, opt) ==
    CASE opt.name = "WithCustomAlphabet" -> WithCustomAlphabet(c, opt.arg)
      [] opt.name = "WithEntropyProviders" -> WithEntropyProviders(c, opt.arg)
      [] opt.name = "func" -> Assign(c, opt.arg)

RECURSIVE ApplyConfigs(_, _)
\* lines 53-55
ApplyConfigs(c, opts) ==
    IF opts = <<>> THEN c ELSE ApplyConfigs(ApplyConfig(c, Head(opts)), Tail(opts))

\* lines 41-62: the configuration of the new generator
NewExtendedGenerator(opts) == ApplyConfigs(DefaultConfig, opts)

\* the options of the model that make the ID space small: two symbols, one
\* position, a cap of 2 issued IDs, pressure 1
SmallSpace ==
    << [ name |-> "WithCustomAlphabet", arg |-> Letters(2) ],
       [ name |-> "func",
         arg |-> [ Size |-> 1, MaxUniqueIDs |-> 2,
                   UniquenessPressure |-> [num |-> 1, den |-> 1] ] ] >>

\* the ways the model sets the providers
EntropyOptions ==
    { [ name |-> "WithEntropyProviders", arg |-> <<>> ],
      [ name |-> "WithEntropyProviders", arg |-> << "timestamp" >> ],
      [ name |-> "func", arg |-> [ Entropy |-> <<>> ] ],
      [ name |-> "func", arg |-> [ Entropy |-> << "network" >> ] ] }

\* the option lists NewExtendedGenerator is called with
ConfigOptionLists ==
    { SmallSpace }
    \cup { SmallSpace \o << e >> : e \in EntropyOptions }
    \cup { << e >> \o SmallSpace : e \in EntropyOptions }
    \cup { SmallSpace \o << e, f >> : e \in EntropyOptions, f \in EntropyOptions }

InitCfg ==
    /\ \E opts \in ConfigOptionLists : config = NewExtendedGenerator(opts)
    /\ callers = {"p1"}
    /\ InitInstance
    /\ NoApplication
    /\ NoLibrary

\* one goroutine calls Generate on a generator built from the options
SpecCfg == InitCfg /\ [][Next]_vars

\* ------------------------------------------------------- several instances
\* extended_generator.go: instances made by further calls of
\* NewExtendedGenerator with the same options.  A map is a reference: maps
\* holds the keys of each map made, an instance holds which map is its own.

Others == {"h1", "h2"}

makeMapShared(h) == "h1"

\* lines 58 and 97: make(map[string]bool) gives instance h a map of its own
makeMap(h) == h

\* g.generated of instance h
IssuedOf(h) == maps[others[h].generated]

\* the configurations of the model with several instances
TwoConfigs ==
    { Cfg(Letters(2), 1, <<"network">>, 1, 1, 1, 1),
      Cfg(Letters(2), 1, <<"timestamp">>, 1, 1, 2, 1) }

\* the errors collectEntropy can return (lines 126-144)
EntropyErrors ==
    { ProviderErr(config.Entropy[k]) :
          k \in { j \in 1..Len(config.Entropy) : ProviderFails(config.Entropy[j]) } }
    \cup (IF Len(config.Entropy) > 0 THEN { ErrGenerationTimeout } ELSE {})

\* Generate of instance h returns: its map refers to issued, its counter is counter
OtherReturn(h, ref, issued, counter, id, err) ==
    /\ maps' = [maps EXCEPT ![ref] = issued]
    /\ others' = [others EXCEPT ![h] = [ generated |-> ref, idCounter |-> counter,
                                         ret |-> [id |-> id, err |-> err] ]]

\* lines 65-123 for instance h, from Lock to Unlock in one step: the call
\* fails in validateConfig or collectEntropy and changes nothing; or it passes
\* the reset of lines 96-99 and then returns a candidate that was not in the
\* map, or fails in the loop
OtherGenerate(h) ==
    /\ h \in DOMAIN others
    /\ LET ref == others[h].generated
           counter == others[h].idCounter
           reset == counter >= config.MaxUniqueIDs
           ref2 == IF reset THEN makeMap(h) ELSE ref
           base == IF reset THEN {} ELSE maps[ref]
           counter2 == IF reset THEN 0 ELSE counter
       IN IF validateConfig # ErrNil
          THEN OtherReturn(h, ref, maps[ref], counter, NoID, validateConfig)
          ELSE \/ \E err \in EntropyErrors :
                     OtherReturn(h, ref, maps[ref], counter, NoID, err)
               \/ OtherReturn(h, ref2, base, counter2, NoID, ErrGenerationTimeout)
               \/ /\ config.MaxGenerationTime > 0
                  /\ calculateMaxAttempts(N, config.Size, config.UniquenessPressure) > 0
                  /\ \E seed \in Seeds(config.Entropy) :
                     \E draws \in [1..config.Size -> DrawSet] :
                        /\ \A i \in 1..config.Size :
                               IndexInRange(MixIndex(draws[i], seed, i - 1))
                        /\ generateCandidateID(draws, seed) \notin base
                        /\ OtherReturn(h, ref2, base \cup {generateCandidateID(draws, seed)},
                                       counter2 + 1, generateCandidateID(draws, seed), ErrNil)
    /\ UNCHANGED << extVars, valVars, basicVars, aggVars, moreVars >>

InitTwo ==
    /\ config \in TwoConfigs
    /\ callers = {"p1"}
    /\ InitInstance
    /\ NoApplication
    /\ NoValidator
    /\ NoBasic
    /\ NoAggregator
    /\ others = [ h \in Others |->
                    [ generated |-> makeMap(h), idCounter |-> 0,
                      ret |-> [id |-> NoID, err |-> ErrNil] ] ]
    /\ maps = [ r \in { makeMap(h) : h \in Others } |-> {} ]
    /\ NoMore

NextTwo ==
    \/ Next
    \/ \E h \in Others : OtherGenerate(h)

\* three instances with equal configurations; one goroutine calls Generate on
\* the first, step by step, and Generate is called on the others
SpecTwo == InitTwo /\ [][NextTwo]_vars

\* ------------------------------------------------------------ secure token
\* GenerateSecureToken and MustGenerateSecureToken (package idforge, the file
\* that holds IsValidID).

\* encoding/base32: the alphabet of StdEncoding, "A".."Z" "2".."7"
EncodeStd == [k \in 1..32 |-> IF k <= 26 THEN 64 + k ELSE 23 + k]

\* encoding/base32: StdPadding, '='
StdPadding == 61

\* the 5-bit group k (0-based) of the bits of b, zero bits after the last byte
Group(b, k) ==
    LET i == (5 * k) \div 8
        hi == b[i + 1]
        lo == IF i + 2 <= Len(b) THEN b[i + 2] ELSE 0
    IN ((hi * 256 + lo) \div Pow(2, 11 - ((5 * k) % 8))) % 32

\* base32.StdEncoding.EncodeToString(b): one character for each started group
\* of 5 bits, then padding up to a multiple of 8 characters
EncodeToString(b) ==
    LET groups == (8 * Len(b) + 4) \div 5
        total == 8 * ((Len(b) + 4) \div 5)
    IN [k \in 1..total |-> IF k <= groups THEN EncodeStd[Group(b, k - 1) + 1]
                                           ELSE StdPadding]

\* slip: the encoding returned whole
SliceToNever(s, length) == s

\* line 72: s[:length], for 0 <= length <= len(s)
SliceTo(s, length) == SubSeq(s, 1, length)

\* s[:length] panics unless 0 <= length <= len(s)
SliceInRange(s, length) == length >= 0 /\ length <= Len(s)

NoPanic == ""
PanicMakeslice == "makeslice: len out of range"
PanicSlice == "slice bounds out of range"

\* the largest token asked for
MaxTokenLen == 6

\* the arguments explored and the byte values rand.Read may write
TokenLengths == -1 .. MaxTokenLen
TokenBytes == {0, 165, 255}

\* GenerateSecureToken returns token, err, or panics
TokenReturn(token, err, panic) ==
    /\ tokRet' = [token |-> token, err |-> err, panic |-> panic]
    /\ tokPc' = IF panic = NoPanic THEN "returned" ELSE "done"

\* line 67: b := make([]byte, length); a negative length panics
MakeB ==
    /\ tokPc = "make"
    /\ IF tokLength < 0
         THEN /\ TokenReturn(<<>>, ErrNil, PanicMakeslice)
              /\ UNCHANGED tokB
         ELSE /\ tokB' = [i \in 1..tokLength |-> 0]
              /\ tokPc' = "read"
              /\ UNCHANGED tokRet
    /\ UNCHANGED << tokLength, extVars, valVars, basicVars, aggVars, otherVars,
                    shareVars >>

\* lines 68-71: rand.Read(b) fills b, or fails and "", err is returned
RandRead ==
    /\ tokPc = "read"
    /\ \/ /\ tokB' \in [1..tokLength -> TokenBytes]
          /\ tokPc' = "encode"
          /\ UNCHANGED tokRet
       \/ /\ tokLength > 0
          /\ TokenReturn(<<>>, ErrRandReader, NoPanic)
          /\ UNCHANGED tokB
    /\ UNCHANGED << tokLength, extVars, valVars, basicVars, aggVars, otherVars,
                    shareVars >>

\* line 72: return base32.StdEncoding.EncodeToString(b)[:length], nil
EncodeSlice ==
    /\ tokPc = "encode"
    /\ IF SliceInRange(EncodeToString(tokB), tokLength)
         THEN TokenReturn(SliceTo(EncodeToString(tokB), tokLength), ErrNil, NoPanic)
         ELSE TokenReturn(<<>>, ErrNil, PanicSlice)
    /\ UNCHANGED << tokLength, tokB, extVars, valVars, basicVars, aggVars, otherVars,
                    shareVars >>

\* lines 76-82: the call was made by MustGenerateSecureToken, which panics
\* with the error or returns the token
MustGenerateSecureToken ==
    /\ tokPc = "returned"
    /\ tokPc' = "done"
    /\ tokRet' = IF tokRet.err # ErrNil
                   THEN [token |-> <<>>, err |-> ErrNil, panic |-> tokRet.err]
                   ELSE tokRet
    /\ UNCHANGED << tokLength, tokB, extVars, valVars, basicVars, aggVars, otherVars,
                    shareVars >>

InitTok ==
    /\ config = Cfg(Letters(2), 1, <<>>, 1, 1, 1, 1)
    /\ callers = {}
    /\ InitInstance
    /\ NoApplication
    /\ NoValidator
    /\ NoBasic
    /\ NoAggregator
    /\ NoOthers
    /\ tokLength \in TokenLengths
    /\ tokPc = "make"
    /\ tokB = <<>>
    /\ tokRet = <<>>
    /\ NoShared

NextTok ==
    \/ MakeB
    \/ RandRead
    \/ EncodeSlice
    \/ MustGenerateSecureToken

\* one call of GenerateSecureToken, directly or by MustGenerateSecureToken
SpecTok == InitTok /\ [][NextTok]_vars

\* ------------------------------------------------ alphabets with repetitions

\* an alphabet of n bytes, each the symbol "A"
Repeated(n) == [i \in 1..n |-> 65]

\* configurations whose alphabet repeats symbols: "AA", "AAA", "ABA", next to
\* "A" and "AB"
RepConfigs ==
    { Cfg(Repeated(2), 1, <<"timestamp">>, 1, 1, 2, 1),
      Cfg(Repeated(3), 2, <<"network">>, 1, 1, 2, 1),
      Cfg(<<65, 66, 65>>, 1, <<>>, 1, 1, 3, 1),
      Cfg(Repeated(1), 1, <<"timestamp">>, 1, 1, 2, 1),
      Cfg(Letters(2), 1, <<"random">>, 1, 1, 2, 1) }

InitRep ==
    /\ config \in RepConfigs
    /\ callers = {"p1"}
    /\ InitInstance
    /\ NoApplication
    /\ NoLibrary

\* one goroutine calls Generate on a generator whose alphabet may repeat symbols
SpecRep == InitRep /\ [][Next]_vars

\* ------------------------------------------------ one provider, several callers
\* sources_test.go (package entropy): RandomBytesEntropy.Provide, lines 300-312,
\* and EnhancedEntropyProvider.Provide, lines 368-410, called on one instance
\* by several goroutines at a time: the goroutines of Aggregate (line 439) for
\* a provider listed twice, or the Generate calls of two generators (line 135
\* of extended_generator.go) that were given the same provider.

Sharers == {"g1", "g2"}

\* the calls each goroutine makes on the instance
MaxCalls == 2

\* line 302: the default length
DefaultLength == 16

\* the values of the new big.Int of line 404 that are told apart
HashValues == {1, 2}

\* e.lastValue == nil
NilValue == 0

\* the instances: &RandomBytesEntropy{} (length 0), the RandomBytesEntropy of
\* DefaultEntropyProviders (line 472), &EnhancedEntropyProvider{}
SharedInstances ==
    { [kind |-> "random", length |-> 0, mu |-> FALSE, lastValue |-> NilValue],
      [kind |-> "random", length |-> DefaultLength, mu |-> FALSE, lastValue |-> NilValue],
      [kind |-> "enhanced", length |-> 0, mu |-> FALSE, lastValue |-> NilValue] }

\* goroutine g is at position pos of Provide
At(g, pos) == g \in DOMAIN gor /\ gor[g].pc = pos

\* goroutine g moves to position pos
Goto(g, pos) == gor' = [gor EXCEPT ![g].pc = pos]

\* Provide returns out, err in goroutine g
ProvideReturn(g, out, err) ==
    gor' = [gor EXCEPT ![g].pc = "done", ![g].out = out, ![g].err = err]

\* goroutine g calls p.Provide(ctx) on the instance
CallProvide(g) ==
    /\ g \in DOMAIN gor
    /\ gor[g].pc \in {"idle", "done"}
    /\ gor[g].calls < MaxCalls
    /\ gor' = [gor EXCEPT ![g] = [ pc |-> IF shared.kind = "random" THEN "testLength"
                                                                    ELSE "lockE",
                                   calls |-> @.calls + 1, n |-> 0,
                                   out |-> <<>>, err |-> ErrNil ]]
    /\ UNCHANGED shared
    /\ UNCHANGED << extVars, valVars, basicVars, aggVars, otherVars, tokenVars >>

\* line 301: if r.length == 0, a read of r.length
TestLength(g) ==
    /\ At(g, "testLength")
    /\ Goto(g, IF shared.length = 0 THEN "setLength" ELSE "makeB")
    /\ UNCHANGED shared
    /\ UNCHANGED << extVars, valVars, basicVars, aggVars, otherVars, tokenVars >>

\* line 302: r.length = 16, a write of r.length
SetLength(g) ==
    /\ At(g, "setLength")
    /\ shared' = [shared EXCEPT !.length = DefaultLength]
    /\ Goto(g, "makeB")
    /\ UNCHANGED << extVars, valVars, basicVars, aggVars, otherVars, tokenVars >>

\* lines 305-311: b := make([]byte, r.length), a read of r.length; rand.Read
\* fills b or fails; the result has two hex digits for each byte
MakeHex(g) ==
    /\ At(g, "makeB")
    /\ \/ ProvideReturn(g, [digits |-> 2 * shared.length], ErrNil)
       \/ ProvideReturn(g, <<>>, ProviderErr("random"))
    /\ UNCHANGED shared
    /\ UNCHANGED << extVars, valVars, basicVars, aggVars, otherVars, tokenVars >>

\* line 369: e.mu.Lock()
LockE(g) ==
    /\ At(g, "lockE")
    /\ shared.mu = FALSE
    /\ shared' = [shared EXCEPT !.mu = TRUE]
    /\ Goto(g, "readLast")
    /\ UNCHANGED << extVars, valVars, basicVars, aggVars, otherVars, tokenVars >>

\* lines 398-404: a read of e.lastValue; the hash gives the new value
ReadLast(g) ==
    /\ At(g, "readLast")
    /\ \E v \in HashValues : gor' = [gor EXCEPT ![g].pc = "writeLast", ![g].n = v]
    /\ UNCHANGED shared
    /\ UNCHANGED << extVars, valVars, basicVars, aggVars, otherVars, tokenVars >>

\* lines 407-409 and the deferred e.mu.Unlock(): a write of e.lastValue, the
\* return of newValue.String()
WriteLast(g) ==
    /\ At(g, "writeLast")
    /\ shared' = [shared EXCEPT !.lastValue = gor[g].n, !.mu = FALSE]
    /\ ProvideReturn(g, [value |-> gor[g].n], ErrNil)
    /\ UNCHANGED << extVars, valVars, basicVars, aggVars, otherVars, tokenVars >>

\* the field of the instance that the next step of goroutine g reads or writes
Accesses(g) ==
    IF At(g, "testLength") \/ At(g, "makeB") THEN [field |-> "length", write |-> FALSE]
    ELSE IF At(g, "setLength") THEN [field |-> "length", write |-> TRUE]
    ELSE IF At(g, "readLast") THEN [field |-> "lastValue", write |-> FALSE]
    ELSE IF At(g, "writeLast") THEN [field |-> "lastValue", write |-> TRUE]
    ELSE [field |-> "", write |-> FALSE]

\* two goroutines are about to access one field, one of them to write it, with
\* nothing that orders the two accesses: a data race
DataRace ==
    \E g \in Sharers : \E h \in Sharers :
        /\ g # h
        /\ Accesses(g).field # ""
        /\ Accesses(g).field = Accesses(h).field
        /\ Accesses(g).write

InitShare ==
    /\ config = Cfg(Letters(2), 1, <<>>, 1, 1, 1, 1)
    /\ callers = {}
    /\ InitInstance
    /\ NoApplication
    /\ NoValidator
    /\ NoBasic
    /\ NoAggregator
    /\ NoOthers
    /\ NoToken
    /\ shared \in SharedInstances
    /\ gor = [ g \in Sharers |-> [ pc |-> "idle", calls |-> 0, n |-> 0,
                                   out |-> <<>>, err |-> ErrNil ] ]

NextShare ==
    \E g \in Sharers :
        \/ CallProvide(g)
        \/ TestLength(g)
        \/ SetLength(g)
        \/ MakeHex(g)
        \/ LockE(g)
        \/ ReadLast(g)
        \/ WriteLast(g)

\* one provider instance and two goroutines that call Provide on it
SpecShare == InitShare /\ [][NextShare]_vars

\* ------------------------------------------------------------ properties

ValidConfig == ~AlphabetInvalid /\ ~SizeInvalid

Returned(p) == pc[p] = "done"
ReturnedID(p) == pc[p] = "done" /\ ret[p].err = ErrNil
TimedOut(p) == pc[p] = "done" /\ ret[p] = [id |-> NoID, err |-> ErrGenerationTimeout]

\* min(floor(alphabet_size^Size * UniquenessPressure), 1000)
AttemptBound ==
    Min2((Pow(N, config.Size) * config.UniquenessPressure.num)
              \div config.UniquenessPressure.den, 1000)

AlphabetSymbols == { config.Alphabet[i] : i \in 1..N }

RECURSIVE OutputsInOrder(_)
\* the outputs recorded in a log of Provide calls, first call first
OutputsInOrder(log) ==
    IF log = <<>> THEN <<>>
    ELSE OutputsInOrder(SubSeq(log, 1, Len(log) - 1)) \o log[Len(log)].out

\* C1: the IDs returned since the issued set was last cleared are pairwise
\* distinct, and every returned ID was absent from the issued set when the
\* call inserted it.
C1_DistinctBetweenResets ==
    /\ \A id \in BagToSet(epoch) : CopiesIn(id, epoch) = 1
    /\ \A p \in Procs : ReturnedID(p) => freshAtInsert[p]

\* two successful calls with no reset between them
C1_Witness ==
    /\ ReturnedID("p1") /\ ReturnedID("p2")
    /\ ret["p1"].id # ret["p2"].id
    /\ BagCardinality(epoch) >= 2

\* C2: every ID returned with a nil error has exactly Size symbols, all of the
\* configured alphabet; building a candidate never indexes the alphabet out of
\* range (no call panics), whatever the seed and the draws.
C2_LengthAndAlphabet ==
    \A p \in Procs :
        /\ ret[p].err # ErrPanic
        /\ ReturnedID(p) =>
              /\ Len(ret[p].id) = config.Size
              /\ \A i \in 1..Len(ret[p].id) : ret[p].id[i] \in AlphabetSymbols
        /\ pc[p] \in {"test", "insert"} =>
              /\ Len(candidate[p]) = config.Size
              /\ \A i \in 1..Len(candidate[p]) : candidate[p][i] \in AlphabetSymbols

\* a two-symbol ID returned by a call that mixed in the output of two providers
C2_Witness ==
    \E p \in Procs : ReturnedID(p) /\ Len(ret[p].id) = 2 /\ provCalls[p] = 2

\* C3: at most one call is between lock acquisition and return; the issued set
\* and the counter hold exactly the IDs returned since the last reset (no
\* update is lost), each of them once.
C3_Serialized ==
    /\ Cardinality({ p \in Procs : pc[p] \in Locked }) <= 1
    /\ mu <=> (\E p \in Procs : pc[p] \in Locked)
    /\ generated = BagToSet(epoch)
    /\ idCounter = BagCardinality(epoch)
    /\ idCounter = Cardinality(generated)

\* one call waits for the lock while the other is about to insert
C3_Witness ==
    /\ pc["p1"] = "insert" /\ pc["p2"] = "lock"
    /\ generated # {}

\* C4: a call that finds the counter at the cap (valid configuration, no
\* provider error, context live, attempt bound >= 1) clears the issued set and
\* succeeds on its first attempt.
C4_ResetNotExhaustion ==
    \A p \in Procs :
        ( /\ Returned(p)
          /\ reachedCap[p]
          /\ ValidConfig
          /\ ctx[p] = "live"
          /\ ret[p].err \notin ProviderErrs
          /\ AttemptBound >= 1 )
        => /\ ret[p].err = ErrNil
           /\ built[p] = 1
           /\ didReset[p] = 1

\* alphabet "AB", length 1, pressure 1.0, cap 2: the call after two successes
C4_Witness ==
    /\ config.Alphabet = <<65, 66>> /\ config.Size = 1
    /\ config.UniquenessPressure = [num |-> 1, den |-> 1]
    /\ config.MaxUniqueIDs = 2
    /\ \E p \in Procs : ReturnedID(p) /\ reachedCap[p] /\ didReset[p] = 1

\* C5: with a cap >= 1 the issued set never holds more IDs than the cap, and a
\* call that found the counter at the cap runs its attempts on an emptied set
\* and a zero counter.
C5_CapBound ==
    /\ config.MaxUniqueIDs >= 1 => Cardinality(generated) <= config.MaxUniqueIDs
    /\ \A p \in Procs :
          (pc[p] \in {"loop", "build", "test", "insert"} /\ reachedCap[p])
          => (generated = {} /\ idCounter = 0 /\ didReset[p] = 1)

\* the set grew to a cap of 2 or more and the next call has just emptied it
C5_Witness ==
    /\ config.MaxUniqueIDs >= 2
    /\ \E p \in Procs : pc[p] = "loop" /\ reachedCap[p] /\ generated = {}

\* C6: a call whose context was done when it was made (valid configuration)
\* invokes no provider, builds no candidate and returns ErrGenerationTimeout.
C6_DoneContextNoWork ==
    \A p \in Procs :
        (ctx[p] = "precancelled" /\ ValidConfig)
        => /\ provCalls[p] = 0
           /\ built[p] = 0
           /\ Returned(p) => TimedOut(p)

\* such a call has returned, on an instance with an empty provider list
C6_Witness ==
    /\ config.Entropy = <<>>
    /\ \E p \in Procs : ctx[p] = "precancelled" /\ TimedOut(p)

\* C7 as stated: a call whose context is done when it returns (and whose
\* providers did not fail) returns ErrGenerationTimeout and no ID.
C7_NoIDAfterDone ==
    \A p \in Procs :
        (Returned(p) /\ ValidConfig /\ ctx[p] # "live" /\ ret[p].err \notin ProviderErrs)
        => TimedOut(p)

\* C7 amended: a call that reaches a deadline check (before a provider call, at
\* an attempt whose index is a multiple of 10) with its context done returns
\* ErrGenerationTimeout and no ID at that check; an ID is returned with the
\* context done only by a call that has reached no such check.
C7_TimeoutAtCheck ==
    \A p \in Procs :
        /\ checkedDone[p] => TimedOut(p)
        /\ (ReturnedID(p) /\ ctx[p] # "live") => ~checkedDone[p]

\* the context was cancelled during the retry loop and seen at attempt 10
C7_Witness ==
    \E p \in Procs :
        TimedOut(p) /\ checkedDone[p] /\ ctx[p] = "cancelled" /\ built[p] = 10

\* C8: a call builds at most 10 candidates while its context is done.
C8_AtMostTenAfterDone ==
    \A p \in Procs : sinceDone[p] <= 10

\* ten candidates built after the cancellation, then the timeout
C8_Witness ==
    \E p \in Procs : TimedOut(p) /\ sinceDone[p] = 10 /\ checkedDone[p]

\* C9: a call builds at most min(floor(alphabet_size^Size * pressure), 1000)
\* candidates, and a call that has built that many either returns the last one
\* (it was new) or returns ErrGenerationTimeout and no ID.
C9_AttemptBound ==
    \A p \in Procs :
        /\ built[p] <= AttemptBound
        /\ (Returned(p) /\ built[p] = AttemptBound)
           => \/ (ReturnedID(p) /\ freshAtInsert[p])
              \/ TimedOut(p)

\* 1000 duplicates in a space of 1024 IDs, context live
C9_Witness ==
    \E p \in Procs :
        TimedOut(p) /\ built[p] = 1000 /\ ctx[p] = "live" /\ Pow(N, config.Size) > 1000

\* C10: with a valid alphabet and Size <= 0 every call returns ErrInvalidSize,
\* no provider is invoked, no candidate is built, and the issued set and the
\* counter stay as constructed.
C10_InvalidSize ==
    (~AlphabetInvalid /\ config.Size <= 0)
    => /\ generated = {} /\ idCounter = 0
       /\ \A p \in Procs :
             /\ provCalls[p] = 0
             /\ built[p] = 0
             /\ Returned(p) => ret[p] = [id |-> NoID, err |-> ErrInvalidSize]

\* two calls, one of them with a context that was already done, Size = 0
C10_Witness ==
    /\ ~AlphabetInvalid /\ config.Size = 0 /\ config.Entropy # <<>>
    /\ Returned("p1") /\ ret["p1"].err = ErrInvalidSize /\ ctx["p1"] = "precancelled"
    /\ Returned("p2") /\ ret["p2"].err = ErrInvalidSize /\ ctx["p2"] = "cancelled"

\* C11: with an alphabet of fewer than 2 symbols every call returns
\* ErrInvalidAlphabet and no ID, whatever the Size and the state of the context;
\* no provider is invoked, no candidate is built, the context of the call is
\* left as the caller passed it, and the issued set and the counter stay as
\* constructed.
C11_InvalidAlphabetFirst ==
    Len(config.Alphabet) < 2
    => /\ generated = {} /\ idCounter = 0
       /\ \A p \in Procs :
             /\ provCalls[p] = 0
             /\ built[p] = 0
             /\ didReset[p] = 0
             /\ ctx[p] # "expired"
             /\ Returned(p) => ret[p] = [id |-> NoID, err |-> ErrInvalidAlphabet]

\* one symbol and Size 0 at the same time; one call with a context that was
\* already done, the other cancelled while it waited for the lock
C11_Witness ==
    /\ Len(config.Alphabet) = 1 /\ config.Size = 0 /\ config.Entropy # <<>>
    /\ Returned("p1") /\ ret["p1"].err = ErrInvalidAlphabet /\ ctx["p1"] = "precancelled"
    /\ Returned("p2") /\ ret["p2"].err = ErrInvalidAlphabet /\ ctx["p2"] = "cancelled"

\* C12: when a Provide call returns an error, Generate returns exactly that
\* error and no ID; the failing provider is the last one invoked (the providers
\* after it in the list are not called), no candidate is built and the issued
\* set is not cleared.
C12_ProviderErrorVerbatim ==
    \A p \in Procs :
        provErr[p] # ErrNil
        => /\ Returned(p)
           /\ ret[p] = [id |-> NoID, err |-> provErr[p]]
           /\ provErr[p] # ErrGenerationTimeout
           /\ provCalls[p] = Len(provLog[p])
           /\ provLog[p][provCalls[p]].name = config.Entropy[provCalls[p]]
           /\ built[p] = 0
           /\ didReset[p] = 0

\* the first of two providers failed: the second one was never called
C12_Witness ==
    \E p \in Procs :
        /\ Returned(p) /\ provErr[p] = ProviderErr("network")
        /\ provCalls[p] = 1 /\ Len(config.Entropy) = 2

\* C13: a call whose context became done during entropy collection returns
\* ErrGenerationTimeout and no ID, both when the cancellation is seen between
\* two provider calls and when the provider in progress reports it as its
\* error.
C13_TimeoutDuringEntropy ==
    \A p \in Procs :
        ( /\ Returned(p)
          /\ ValidConfig
          /\ ctx[p] # "live"
          /\ \/ provErr[p] = CtxErr(ctx[p])
             \/ provErr[p] = ErrNil /\ Len(provLog[p]) < Len(config.Entropy) )
        => TimedOut(p)

\* C14: the context a call observes is done as soon as the caller's context is
\* done or MaxGenerationTime has elapsed, whichever comes first.  A call that
\* reaches a deadline check after either event returns ErrGenerationTimeout; with
\* MaxGenerationTime <= 0 the context is done from the start for a live caller
\* too, so every call times out without a provider call or a candidate; a
\* caller's cancellation is kept as it is by the derived context.
C14_TighterDeadline ==
    \A p \in Procs :
        /\ (checkedDone[p] /\ ctx[p] = "expired") => TimedOut(p)
        /\ (checkedDone[p] /\ ctx[p] \in {"precancelled", "cancelled"}) => TimedOut(p)
        /\ (ValidConfig /\ config.MaxGenerationTime <= 0)
           => /\ pc[p] \in Timed => ctx[p] # "live"
              /\ provCalls[p] = 0
              /\ built[p] = 0
              /\ Returned(p) => TimedOut(p)

\* MaxGenerationTime 0: one caller whose context stayed live, one caller that
\* cancelled while it waited for the lock
C14_Witness ==
    /\ config.MaxGenerationTime <= 0
    /\ TimedOut("p1") /\ ctx["p1"] = "expired" /\ checkedDone["p1"]
    /\ TimedOut("p2") /\ ctx["p2"] = "cancelled" /\ checkedDone["p2"]

\* C15: while a call is in its retry loop, at every attempt, each configured
\* provider has been invoked exactly once, in list order, and the mixing seed is
\* the concatenation of their outputs in that order; a call never invokes more
\* providers than the list holds.
C15_ProvidersOnceInOrder ==
    \A p \in Procs :
        /\ provCalls[p] <= Len(config.Entropy)
        /\ pc[p] \in {"loop", "build", "test", "insert"}
           => /\ provCalls[p] = Len(config.Entropy)
              /\ Len(provLog[p]) = Len(config.Entropy)
              /\ \A i \in 1..Len(provLog[p]) : provLog[p][i].name = config.Entropy[i]
              /\ seedBytes[p] = OutputsInOrder(provLog[p])

\* second attempt of a call whose two providers returned "02" and "1"
C15_Witness ==
    \E p \in Procs :
        /\ pc[p] = "build" /\ attempt[p] = 1
        /\ config.Entropy = <<"network", "timestamp">>
        /\ seedBytes[p] = <<48, 50, 49>>

\* C16: for a fixed seed, distinct draws give distinct alphabet indexes at every
\* position and distinct candidates, every index lies in [0, N), and when all
\* N^Size combinations of draws have been used every ID of alphabet^Size has
\* been produced exactly once (the map r -> (r + s) mod N is a bijection on
\* [0, N)); with an empty seed the index is the draw itself.
C16_MixBijection ==
    LET ks == 1..Len(mixed)
        ids == { mixed[k].id : k \in ks }
    IN /\ \A k \in ks :
             /\ mixed[k].id # NoID
             /\ \A i \in 1..config.Size :
                   /\ mixed[k].index[i] \in 0..(N - 1)
                   /\ mixed[k].id[i] = config.Alphabet[mixed[k].index[i] + 1]
                   /\ mixSeed = <<>> => mixed[k].index[i] = mixed[k].draws[i]
       /\ \A k, l \in ks : \A i \in 1..config.Size :
             mixed[k].draws[i] # mixed[l].draws[i]
             => mixed[k].index[i] # mixed[l].index[i]
       /\ Cardinality(ids) = Len(mixed)
       /\ Len(mixed) = Pow(N, config.Size)
          => /\ Cardinality(ids) = Pow(N, config.Size)
             /\ \A i \in 1..config.Size :
                   { mixed[k].index[i] : k \in ks } = 0..(N - 1)

\* all 25 two-symbol IDs over 5 symbols, built with the seed bytes 254 and 1
C16_Witness ==
    /\ N = 5 /\ config.Size = 2 /\ mixSeed = <<254, 1>>
    /\ Len(mixed) = 25
    /\ mixed[25].index # mixed[25].draws

\* C17: a call clears the issued set at most once; not before its entropy
\* collection has succeeded; once it is in (or has returned from) its retry loop
\* it has cleared the set exactly once if the counter had reached the cap when
\* the call took the lock and never otherwise, at every attempt alike; a call
\* that fails validation or entropy collection never clears it.
C17_ResetOncePerCall ==
    \A p \in Procs :
        LET collected == /\ ValidConfig
                         /\ provErr[p] = ErrNil
                         /\ Len(provLog[p]) = Len(config.Entropy)
        IN /\ didReset[p] <= 1
           /\ pc[p] \in {"lock", "validate", "entropy", "provide"} => didReset[p] = 0
           /\ (pc[p] \in {"loop", "build", "test", "insert"} \/ (Returned(p) /\ collected))
              => didReset[p] = (IF reachedCap[p] THEN 1 ELSE 0)
           /\ (Returned(p) /\ ~collected) => didReset[p] = 0

\* one call has cleared the set and returned; the next call, below the cap, is
\* in its second attempt without having cleared anything
C17_Witness ==
    \E p, q \in Procs :
        /\ ReturnedID(p) /\ reachedCap[p] /\ didReset[p] = 1
        /\ pc[q] = "build" /\ attempt[q] = 1 /\ didReset[q] = 0
        /\ config.MaxUniqueIDs = 2

\* the call of p returned ErrGenerationTimeout with its context live, a valid
\* configuration and succeeding providers, uniqueness pressure 1.0 and an ID
\* space of at most 1000 IDs
ExhaustedAtFullPressure(p) ==
    /\ TimedOut(p)
    /\ ValidConfig
    /\ ctx[p] = "live"
    /\ provErr[p] = ErrNil
    /\ config.UniquenessPressure = [num |-> 1, den |-> 1]
    /\ Pow(N, config.Size) <= 1000

\* C18 as stated: such a call fails only if every ID of the space is in the
\* issued set.
C18_ExhaustionOnlyWhenFull ==
    \A p \in Procs :
        ExhaustedAtFullPressure(p) => Cardinality(generated) = Pow(N, config.Size)

\* C18 amended: such a call fails only after it has built N^Size candidates,
\* every one of them already in the issued set, on a set it did not clear; and
\* a call that is about to return an ID found it outside the issued set, so the
\* issued set did not hold the whole space.
C18_ExhaustionAfterAllDuplicates ==
    \A p \in Procs :
        /\ ExhaustedAtFullPressure(p)
           => /\ built[p] = Pow(N, config.Size)
              /\ generated # {}
              /\ didReset[p] = 0
        /\ pc[p] = "insert" => Cardinality(generated) < Pow(N, config.Size)

\* nine duplicates in a row while eight of the nine IDs are unissued
C18_Witness ==
    \E p \in Procs :
        /\ ExhaustedAtFullPressure(p)
        /\ N = 3 /\ config.Size = 2
        /\ built[p] = 9 /\ Cardinality(generated) = 1

\* C19: every value GetUniquenessProbability returns, for any configuration and
\* any non-negative int n, lies in [0, 1] and is not NaN, and the product
\* n * (n - 1) it computes is never negative.
C19_ProbabilityInUnitInterval ==
    \A k \in 1..Len(probability) :
        /\ probability[k].p.class \in {"one", "unit"}
        /\ ~IntIsNegative(probability[k].p.product)

\* the int product n * (n - 1) of the query equals the product of the integers
\* (computed here in twice the width, where it cannot wrap)
ProductExact(q) ==
    LET w == Len(q.n)
        wide == Pad(q.n, 2 * w)
    IN /\ ~IntIsNegative(q.p.product)
       /\ IntMul(wide, IntAdd(wide, MinusOne(2 * w))) = Pad(q.p.product, 2 * w)

\* C20: for a fixed configuration the results of queries with growing n never
\* grow, the result for n = 0 and for n = 1 is exactly 1, every result is the
\* birthday-bound value of its n (its exponent has the numerator n(n-1)), and
\* a query leaves the generator as constructed.
C20_MonotoneBirthdayBound ==
    /\ \A k \in 1..Len(probability) :
          /\ (probability[k].n \in { Pad(<<0>>, Len(numIDs)), Pad(<<1>>, Len(numIDs)) })
             => probability[k].p.class = "one"
          /\ probability[k].p.class # "NaN"
          /\ ProductExact(probability[k])
    /\ \A k \in 1..(Len(probability) - 1) :
          LET p1 == probability[k].p
              p2 == probability[k + 1].p
          IN /\ ~(p2.class = "above" /\ p1.class \in {"one", "unit"})
             /\ (p1.class \in {"one", "unit"} /\ p2.class \in {"one", "unit"})
                => ~IntLess(p2.product, p1.product)
    /\ generated = {} /\ idCounter = 0 /\ mu = FALSE
    /\ \A p \in Procs : pc[p] = "idle"

\* ------------------------------------------------------------ C21 .. C30

\* the call of Validate that the state records
Validated == verr # <<>>

\* the requirements of validator v that id does not meet, by what names them:
\* a length bound, the text of a pattern, the description of a character class
Unmet(v, id) ==
    (IF Len(id) < v.minLength THEN {"minLength"} ELSE {})
    \cup (IF Len(id) > v.maxLength THEN {"maxLength"} ELSE {})
    \cup { v.forbiddenPatterns[k] : k \in { j \in 1..Len(v.forbiddenPatterns) :
                                              MatchString(v.forbiddenPatterns[j], id) } }
    \cup { v.requiredCharSet[k].Description : k \in { j \in 1..Len(v.requiredCharSet) :
              CharCount(id, v.requiredCharSet[j].CharSet) < v.requiredCharSet[j].MinCount } }

\* the requirements an error of Validate describes
Described(e) ==
    CASE e.err = ErrIDTooShort -> {"minLength"}
      [] e.err = ErrIDTooLong -> {"maxLength"}
      [] e.err = ErrForbiddenPattern -> {e.pattern}
      [] e.err = ErrWeakID -> { e.missing[i] : i \in 1..Len(e.missing) }
      [] OTHER -> {}

\* C21: the error Validate returns for an ID describes every requirement the
\* ID does not meet: the length bound, the forbidden patterns it matches and
\* the character classes it misses are all in the one error.
\* Violated: Validate returns at the first check that fails.
C21_EveryUnmetRequirementReported ==
    Validated => Unmet(validator, vid) \subseteq Described(verr)

\* C22: Validate succeeds exactly for the IDs whose length is within
\* [minLength, maxLength], that match no forbidden pattern and that have at
\* least MinCount symbols of every required class; a pattern added to the
\* validator rejects the IDs that match it and changes no other outcome.
C22_AcceptsExactlyTheConforming ==
    /\ Validated =>
          (verr.err = ErrNil <=>
              /\ Len(vid) >= validator.minLength
              /\ Len(vid) <= validator.maxLength
              /\ \A k \in 1..Len(validator.forbiddenPatterns) :
                     ~MatchString(validator.forbiddenPatterns[k], vid)
              /\ \A k \in 1..Len(validator.requiredCharSet) :
                     CharCount(vid, validator.requiredCharSet[k].CharSet)
                         >= validator.requiredCharSet[k].MinCount)
    /\ Validated =>
          \A pattern \in ValPatterns :
              LET added == IF Compiles(pattern)
                           THEN [validator EXCEPT !.forbiddenPatterns = Append(@, pattern)]
                           ELSE validator
              IN IDValidatorValidate(added, vid).err = ErrNil <=>
                     /\ verr.err = ErrNil
                     /\ ~(Compiles(pattern) /\ MatchString(pattern, vid))

\* "abcABC1234" has been rejected for the added four-digit pattern by a
\* validator that accepts "abcABC123"
C22_Witness ==
    /\ Validated
    /\ vid = << 97, 98, 99, 65, 66, 67, 49, 50, 51, 52 >>
    /\ verr.err = ErrForbiddenPattern
    /\ verr.pattern = PatDigits4
    /\ IDValidatorValidate(validator, << 97, 98, 99, 65, 66, 67, 49, 50, 51 >>).err = ErrNil

\* an ID of the model has been accepted by a validator with changed bounds
C22_WitnessAccepted ==
    /\ Validated
    /\ verr.err = ErrNil
    /\ Len(vid) <= MaxIDLen
    /\ validator.minLength # DefaultMinLength

\* the option the state records, applied to a basic generator
Applied(name) == lastOption # <<>> /\ lastOption.name = name

\* C26: after WithMinSize(m) with m > 0 the size of the generator is at least m.
\* Violated: the option can only lower the size.
C26_MinSizeEnsured ==
    Applied("WithMinSize") /\ lastOption.arg > 0 => gen.size >= lastOption.arg

\* C27: after WithMaxSize(m) with m > 0 the size of the generator is at most m.
\* Violated: the option can only raise the size.
C27_MaxSizeCapped ==
    Applied("WithMaxSize") /\ lastOption.arg > 0 => gen.size <= lastOption.arg

\* the argument of the option is one its guard rejects
InvalidArgument(opt) ==
    \/ opt.name = "WithAlphabet" /\ Len(opt.arg) < 2
    \/ opt.name \in {"WithSize", "WithMinSize", "WithMaxSize"} /\ opt.arg <= 0

\* C28: whatever options are applied to a Generator made by New, its alphabet
\* has at least 2 symbols and its size is positive; an option with an invalid
\* argument (an alphabet of fewer than 2 symbols, a size or bound that is not
\* positive) leaves alphabet and size as they were.
C28_AlphabetAndSizeStayValid ==
    gen # <<>> =>
        /\ Len(gen.alphabet) >= 2
        /\ gen.size > 0
        /\ lastOption # <<>> /\ InvalidArgument(lastOption) =>
              /\ gen.alphabet = lastOption.before.alphabet
              /\ gen.size = lastOption.before.size

\* WithSize(0) has been applied to a generator whose size an option had changed
C28_Witness ==
    /\ Applied("WithSize")
    /\ lastOption.arg = 0
    /\ gen.size # DefaultSize
    /\ gen.alphabet # DefaultAlphabet

CheckedGenerated == gret # <<>> /\ gcheck # <<>>

\* C30: an ID that Generate returns passes Validate of the same generator and
\* IsValidID with its alphabet and size.
\* Violated: Generate takes bytes of the alphabet, Validate looks up runes.
C30_RoundTrip ==
    CheckedGenerated => gcheck.validate /\ gcheck.isValid

\* Aggregate has returned
Aggregated == aggPc = "done"

\* the digits 0-9 and a-f
LowerHex == (48..57) \cup (97..102)

\* C23: Aggregate starts a goroutine for every provider and returns only when
\* every Provide call has completed and been recorded; it returns an error and
\* the empty string exactly when at least one provider returned an error;
\* otherwise it returns 64 lowercase hexadecimal characters.
C23_AggregateAllOrNothing ==
    Aggregated =>
        /\ \A i \in Goroutines : aggGo[i].st = "done"
        /\ Len(aggParts) + Len(aggErrs) = Len(aggProviders)
        /\ aggRet.err # ErrNil <=> \E i \in Goroutines : aggGo[i].err # ErrNil
        /\ aggRet.err # ErrNil =>
              /\ aggRet.digest = <<>>
              /\ aggRet.err = ErrEntropyCollection
              /\ Len(aggRet.errs) = Cardinality({ i \in Goroutines : aggGo[i].err # ErrNil })
        /\ aggRet.err = ErrNil =>
              /\ Len(aggRet.digest) = 64
              /\ \A k \in 1..Len(aggRet.digest) : aggRet.digest[k] \in LowerHex

\* three providers ran together: Aggregate returned a digest of samples that
\* were appended in another order than the providers are listed
C23_Witness ==
    /\ Aggregated
    /\ aggRet.err = ErrNil
    /\ Len(aggProviders) = 3
    /\ \E i \in Goroutines : aggParts[1] \in ProviderOuts(aggProviders[3])
    /\ aggParts[1] \notin ProviderOuts(aggProviders[1])

\* two Provide calls are in flight at once
C23_WitnessConcurrent ==
    \E i \in DOMAIN aggGo : \E j \in DOMAIN aggGo :
        i # j /\ aggGo[i].st = "started" /\ aggGo[j].st = "started"

\* one provider failed, another gave a sample, and Aggregate returned the error
C23_WitnessFailed ==
    /\ Aggregated
    /\ aggRet.err = ErrEntropyCollection
    /\ Len(aggParts) > 0

\* the call is past collectEntropy, in the retry loop
Generating(p) == pc[p] \in {"loop", "build", "test", "insert"}

\* C24: a generator whose configuration was given a zero-length provider list
\* uses the default providers: however the list was set (WithEntropyProviders
\* with an empty list, a function that assigns an empty Entropy), no call
\* generates candidates without having asked a provider.
\* Violated: a function that assigns an empty Entropy leaves no provider.
C24_NeverZeroProviders ==
    \A p \in callers : Generating(p) => provCalls[p] > 0

\* the issued set and the counter of instance h
StateOf(h) == << maps[others[h].generated], others[h].idCounter >>

\* C25: instances do not interact: no step of a Generate call changes the
\* issued set or the counter of more than one instance, or any configuration;
\* so a call on one instance, whether it returns an ID, fails or resets,
\* leaves the others as they were.
C25_InstancesIndependent ==
    [][ /\ config' = config
        /\ \A h \in Others :
              << generated, idCounter >>' # << generated, idCounter >>
                  => StateOf(h)' = StateOf(h)
        /\ \A h \in Others : \A k \in Others \ {h} :
              StateOf(h)' # StateOf(h) => StateOf(k)' = StateOf(k) ]_vars

\* the first instance has returned an ID that another instance has issued
\* too, while the third, after a failed call, has issued nothing
C25_Witness ==
    /\ others # <<>>
    /\ ReturnedID("p1")
    /\ ret["p1"].id \in IssuedOf("h1")
    /\ ret["p1"].id \in generated
    /\ IssuedOf("h2") = {}
    /\ others["h2"].ret.err = ErrGenerationTimeout

\* an instance has cleared its issued set while the others kept theirs
C25_WitnessReset ==
    /\ others # <<>>
    /\ others["h1"].idCounter = 1
    /\ others["h1"].ret.err = ErrNil
    /\ IssuedOf("h1") = {others["h1"].ret.id}
    /\ config.MaxUniqueIDs = 1
    /\ generated # {}
    /\ generated # IssuedOf("h1")
    /\ IssuedOf("h2") # {}

\* ---------------------------------------------------------------- C31 .. C39

\* GenerateSecureToken has returned a token
TokenReturned == tokPc \in {"returned", "done"} /\ tokRet.err = ErrNil
                 /\ tokRet.panic = NoPanic

\* C31: for every length >= 0 a token that GenerateSecureToken returns has
\* exactly length characters, each one a character of the Base32 alphabet and
\* none the padding character, the encoding of length bytes having at least
\* length characters before its padding; the only other outcome for such a
\* length is the error of rand.Read with the empty string (a panic of
\* MustGenerateSecureToken).  For a negative length the call panics and
\* returns nothing.
C31_SecureTokenLength ==
    /\ tokPc = "encode" =>
           /\ Len(EncodeToString(tokB)) >= tokLength
           /\ \A k \in 1..tokLength : EncodeToString(tokB)[k] # StdPadding
    /\ TokenReturned =>
           /\ tokLength >= 0
           /\ Len(tokRet.token) = tokLength
           /\ \A k \in 1..Len(tokRet.token) :
                  /\ \E j \in 1..32 : tokRet.token[k] = EncodeStd[j]
                  /\ tokRet.token[k] # StdPadding
    /\ (tokPc \in {"returned", "done"} /\ ~TokenReturned) =>
           /\ tokRet.token = <<>>
           /\ IF tokLength < 0
                THEN tokRet.panic = PanicMakeslice /\ tokPc = "done"
                ELSE ErrRandReader \in {tokRet.err, tokRet.panic}
    /\ (tokPc \in {"returned", "done"} /\ tokLength < 0) => tokRet.panic # NoPanic

\* a token of more than 5 characters, which has characters of the second
\* group of 40 bits, built from bytes that are not all 0
C31_Witness ==
    /\ TokenReturned
    /\ tokPc = "done"
    /\ tokLength > 5
    /\ \E k \in 1..Len(tokB) : tokB[k] = 165
    /\ tokRet.token[1] = EncodeStd[21]

\* MustGenerateSecureToken(-1) has panicked
C31_WitnessPanic ==
    /\ tokPc = "done"
    /\ tokLength < 0
    /\ tokRet.panic = PanicMakeslice

\* C32: Generate fails with ErrInvalidAlphabet for every alphabet that does
\* not contain at least 2 unique characters, and such an alphabet is never
\* used to build an ID.
C32_UniqueCharactersRequired ==
    \A p \in Procs :
        Cardinality(AlphabetSymbols) < 2 =>
            /\ built[p] = 0
            /\ Returned(p) => ret[p].err = ErrInvalidAlphabet

\* C33: whenever no Generate call holds the instance lock, idCounter is the
\* number of IDs in the issued set; a step that changes either is the return
\* of a successful call, which adds exactly the returned ID and increments
\* the counter by one, or a reset, which empties the set and zeroes the
\* counter together; a duplicate attempt changes neither.
C33_CounterIsSetSize ==
    [][ /\ mu' = FALSE => idCounter' = Cardinality(generated')
        /\ \A p \in Procs :
              (pc[p] = "test" /\ pc'[p] = "loop") =>
                  generated' = generated /\ idCounter' = idCounter
        /\ (generated' # generated \/ idCounter' # idCounter) =>
              \/ \E p \in Procs :
                    /\ pc[p] = "insert" /\ pc'[p] = "done"
                    /\ ret'[p].err = ErrNil
                    /\ ret'[p].id \notin generated
                    /\ generated' = generated \cup { ret'[p].id }
                    /\ idCounter' = idCounter + 1
              \/ generated' = {} /\ idCounter' = 0 ]_vars

\* two IDs issued and counted, the lock free, after a duplicate attempt
C33_Witness ==
    /\ mu = FALSE
    /\ idCounter = 2
    /\ Cardinality(generated) = 2
    /\ \E p \in Procs : ReturnedID(p) /\ built[p] > 1

\* a call has reset a set of two IDs and returned the first ID of the new one
C33_WitnessReset ==
    /\ mu = FALSE
    /\ idCounter = 1
    /\ \E p \in Procs : ReturnedID(p) /\ didReset[p] = 1 /\ config.MaxUniqueIDs = 2

\* C34: a Generate call that returns a non-nil error leaves the issued set and
\* the counter as they were when the call took the lock.
C34_ErrorLeavesIssuedSet ==
    [][ \A p \in Procs :
          (pc[p] \in Locked /\ pc'[p] = "done" /\ ret'[p].err # ErrNil) =>
              /\ generated' = atLock[p].generated
              /\ idCounter' = atLock[p].idCounter ]_vars

\* the call of p ran on an instance that had issued nothing, its providers
\* all succeeded and its context is still live
FirstCallUndisturbed(p) ==
    /\ Returned(p)
    /\ atLock[p] = [generated |-> {}, idCounter |-> 0]
    /\ provErr[p] = ErrNil
    /\ ctx[p] = "live"

\* C35: with an alphabet of at least 2 symbols, Size > 0 and a uniqueness
\* pressure in (0, 1], a Generate call on an instance whose issued set is
\* empty returns an ID when its providers succeed and its context stays live.
C35_FirstCallSucceeds ==
    \A p \in Procs :
        ( /\ FirstCallUndisturbed(p)
          /\ Cardinality(AlphabetSymbols) >= 2
          /\ config.Size > 0
          /\ config.UniquenessPressure.num > 0
          /\ config.UniquenessPressure.num <= config.UniquenessPressure.den )
        => ret[p].err = ErrNil

\* the samples the Provide calls of this Aggregate returned, in the order of
\* the provider list
SamplesInListOrder == [ i \in Goroutines |-> aggGo[i].out ]

\* C36: the digest Aggregate returns is the digest of the samples folded in
\* the order of the provider list, whatever the order in which the goroutines
\* finished.
C36_DigestInListOrder ==
    (Aggregated /\ aggRet.err = ErrNil) =>
        aggRet.digest = Hex(Sum256(Join(SamplesInListOrder)))

\* C37: the retry loop of a call makes at most 1000 iterations; the mutex is
\* locked only while a call is between Lock and its return, so that every
\* return, successful or not, leaves it unlocked; and when every provider call
\* returns, every Generate call that was made returns, a call waiting for the
\* lock included.
C37_EveryCallReturns ==
    /\ [](\A p \in Procs : attempt[p] <= HardCap /\ maxAttempts[p] <= HardCap)
    /\ [](mu <=> \E p \in Procs : pc[p] \in Locked)
    /\ \A p \in Procs : (pc[p] = "lock") ~> (pc[p] \in Locked)
    /\ \A p \in Procs : (pc[p] \in InFlight) ~> (pc[p] = "done")

\* one call waits for the lock; the other held it, built two duplicates, ran
\* out of attempts and returned, and the mutex is unlocked
C37_Witness ==
    \E p \in Procs : \E q \in Procs :
        /\ pc[p] = "lock"
        /\ pc[q] = "done"
        /\ ret[q].err = ErrGenerationTimeout
        /\ built[q] = 2
        /\ mu = FALSE

\* C38: a Generate call whose context is done while it waits for the instance
\* lock is not held up by the call that has the lock: it can go on to its
\* return of ErrGenerationTimeout whatever the other call does.
C38_DoneWaiterNotBlocked ==
    \A p \in Procs :
        (pc[p] = "lock" /\ CtxDone(p)) => ENABLED (Acquire(p) \/ Proceed(p))

\* C39: concurrent Provide calls on one provider instance never access a field
\* of the instance without synchronization: no two goroutines are at accesses
\* of the same field of which one is a write.
C39_ProvidersRaceFree == ~DataRace

====
